---- MODULE Spec2Model ----
(***************************************************************************)
(* A model of the Ex certificate scanner: the two ExParser variants        *)
(* (src/unnamed/part_000 and src/js/parser.js), their parse and confidence *)
(* functions, and the regular expressions they are written with.           *)
(*                                                                         *)
(* Texts are strings.  A regular expression of the source is a value of    *)
(* the small expression language defined below (Lit, Set, Cat, Alt, Rep,   *)
(* ...) and is matched the way a backtracking engine matches it: Match     *)
(* returns the ways a pattern can match at a position in the order the     *)
(* engine tries them, so the first one is the match JavaScript reports.    *)
(***************************************************************************)
EXTENDS Integers, Sequences, FiniteSets, TLC

VARIABLES text, impl, result, score, certBodies, calls,
          procs, storage, currentResult, ui, workers, finished, saved, now, download

\* the state of a parser call, and the state of the page
parserVars == <<text, impl, result, score, certBodies, calls>>
pageVars == <<procs, storage, currentResult, ui, workers, finished, saved, now, download>>
vars == <<text, impl, result, score, certBodies, calls,
          procs, storage, currentResult, ui, workers, finished, saved, now, download>>

-----------------------------------------------------------------------------
(* Characters *)

LowerLetters == "abcdefghijklmnopqrstuvwxyz"
UpperLetters == "ABCDEFGHIJKLMNOPQRSTUVWXYZ"
DigitChars == "0123456789"

CharAt(s, i) == SubSeq(s, i, i)
CharsOf(s) == {CharAt(s, k) : k \in 1..Len(s)}

Lowers == CharsOf(LowerLetters)
Uppers == CharsOf(UpperLetters)
Letters == Lowers \cup Uppers
Digits == CharsOf(DigitChars)
\* \w and \s of the regular expressions
WordChars == Letters \cup Digits \cup {"_"}
SpaceChars == {" ", "\n", "\t", "\r"}

ToLowerChar(c) ==
    IF c \in Uppers
    THEN CharAt(LowerLetters, CHOOSE k \in 1..26 : CharAt(UpperLetters, k) = c)
    ELSE c
ToUpperChar(c) ==
    IF c \in Lowers
    THEN CharAt(UpperLetters, CHOOSE k \in 1..26 : CharAt(LowerLetters, k) = c)
    ELSE c
\* the characters a character stands for under the i flag
Fold(c) == {ToLowerChar(c), ToUpperChar(c)}
FoldSet(cs) == UNION {Fold(c) : c \in cs}

-----------------------------------------------------------------------------
(* Regular expressions: the constructors *)

Set(cs) == [op |-> "set", cs |-> cs]
SetI(cs) == [op |-> "set", cs |-> FoldSet(cs)]
NSet(cs) == [op |-> "nset", cs |-> cs]
AnyChar == [op |-> "nset", cs |-> {}]
Dot == [op |-> "nset", cs |-> {"\n", "\r"}]
Cat(rs) == [op |-> "cat", rs |-> rs]
Alt(rs) == [op |-> "alt", rs |-> rs]
\* max = -1: no upper limit
Rep(r, min, max) == [op |-> "rep", r |-> r, min |-> min, max |-> max, lazy |-> FALSE]
RepLazy(r, min, max) == [op |-> "rep", r |-> r, min |-> min, max |-> max, lazy |-> TRUE]
Plus(r) == Rep(r, 1, -1)
Star(r) == Rep(r, 0, -1)
Opt(r) == Rep(r, 0, 1)
Grp(n, r) == [op |-> "grp", n |-> n, r |-> r]
Ahead(r) == [op |-> "ahead", r |-> r, neg |-> FALSE]
NotAhead(r) == [op |-> "ahead", r |-> r, neg |-> TRUE]
WordB == [op |-> "wordb"]
Bol == [op |-> "bol"]
Eol == [op |-> "eol"]
Lit(s) == Cat([k \in 1..Len(s) |-> Set({CharAt(s, k)})])
LitI(s) == Cat([k \in 1..Len(s) |-> SetI({CharAt(s, k)})])
WS == Set(SpaceChars)
Dig == Set(Digits)

-----------------------------------------------------------------------------
(* Regular expressions: matching *)

\* a match in progress: the position reached and the capture groups,
\* each <<from, to>> with to exclusive, <<0, 0>> when the group took no part
NoGroups == <<<<0, 0>>, <<0, 0>>, <<0, 0>>>>
At(p) == [p |-> p, g |-> NoGroups]

IsWordAt(t, i) == i >= 1 /\ i <= Len(t) /\ CharAt(t, i) \in WordChars

InClass(re, c) == IF re.op = "set" THEN c \in re.cs ELSE c \notin re.cs
IsClass(re) == re.op = "set" \/ re.op = "nset"

\* the number of characters from position i on that are in the class, at most max
RECURSIVE RunLen(_, _, _, _)
RunLen(re, t, i, max) ==
    IF max = 0 \/ i > Len(t) \/ ~InClass(re, CharAt(t, i)) THEN 0
    ELSE 1 + RunLen(re, t, i + 1, max - 1)

RECURSIVE Match(_, _, _)
RECURSIVE CatFrom(_, _, _, _)
RECURSIVE AltFrom(_, _, _, _)
RECURSIVE RepFrom(_, _, _, _)
RECURSIVE Each(_, _, _, _, _, _)

\* the matches of rs[k..] after each of the matches sts[lo..hi], in order
Each(sts, lo, hi, rs, k, t) ==
    IF lo > hi THEN <<>>
    ELSE IF lo = hi THEN CatFrom(rs, k, t, sts[lo])
    ELSE Each(sts, lo, (lo + hi) \div 2, rs, k, t) \o
         Each(sts, (lo + hi) \div 2 + 1, hi, rs, k, t)

CatFrom(rs, k, t, st) ==
    IF k > Len(rs) THEN <<st>>
    ELSE LET first == Match(rs[k], t, st)
         IN  IF first = <<>> THEN <<>>
             ELSE IF Len(first) = 1 THEN CatFrom(rs, k + 1, t, first[1])
             ELSE Each(first, 1, Len(first), rs, k + 1, t)

AltFrom(rs, k, t, st) ==
    IF k > Len(rs) THEN <<>>
    ELSE Match(rs[k], t, st) \o AltFrom(rs, k + 1, t, st)

\* re.r repeated, count repetitions done so far; an iteration that matches
\* the empty string is not taken
RepFrom(re, count, t, st) ==
    LET stop == IF count >= re.min THEN <<st>> ELSE <<>>
        more == IF re.max # -1 /\ count >= re.max THEN <<>>
                ELSE LET once == SelectSeq(Match(re.r, t, st), LAMBDA x : x.p > st.p)
                         again[j \in 0..Len(once)] ==
                             IF j = 0 THEN <<>>
                             ELSE again[j - 1] \o RepFrom(re, count + 1, t, once[j])
                     IN  again[Len(once)]
    IN  IF re.lazy THEN stop \o more ELSE more \o stop

Match(re, t, st) ==
    CASE re.op = "set" \/ re.op = "nset" ->
            IF st.p <= Len(t) /\ InClass(re, CharAt(t, st.p))
            THEN <<[st EXCEPT !.p = st.p + 1]>> ELSE <<>>
      [] re.op = "cat" -> CatFrom(re.rs, 1, t, st)
      [] re.op = "alt" -> AltFrom(re.rs, 1, t, st)
      [] re.op = "rep" ->
            IF IsClass(re.r)
            THEN LET n == RunLen(re.r, t, st.p, re.max)
                 IN  IF n < re.min THEN <<>>
                     ELSE IF re.lazy
                     THEN [k \in 1..(n - re.min + 1) |-> [st EXCEPT !.p = st.p + re.min + k - 1]]
                     ELSE [k \in 1..(n - re.min + 1) |-> [st EXCEPT !.p = st.p + n - k + 1]]
            ELSE RepFrom(re, 0, t, st)
      [] re.op = "grp" ->
            LET in == Match(re.r, t, st)
            IN  [k \in 1..Len(in) |-> [in[k] EXCEPT !.g[re.n] = <<st.p, in[k].p>>]]
      [] re.op = "ahead" ->
            IF (Match(re.r, t, st) # <<>>) # re.neg THEN <<st>> ELSE <<>>
      [] re.op = "wordb" ->
            IF IsWordAt(t, st.p - 1) # IsWordAt(t, st.p) THEN <<st>> ELSE <<>>
      [] re.op = "bol" -> IF st.p = 1 THEN <<st>> ELSE <<>>
      [] re.op = "eol" -> IF st.p = Len(t) + 1 THEN <<st>> ELSE <<>>

\* String.prototype.match without the g flag, searching from position from:
\* the leftmost match, [from, to) and the groups; found = FALSE for null
NoMatch == [found |-> FALSE, from |-> 0, to |-> 0, g |-> NoGroups]

\* the match at position from, given the ways ms the pattern matches there
MatchAt(from, ms) ==
    IF ms # <<>>
    THEN [found |-> TRUE, from |-> from, to |-> ms[1].p, g |-> ms[1].g]
    ELSE NoMatch

\* the match at the first of the positions lo..hi that has one
RECURSIVE SearchIn(_, _, _, _)
SearchIn(re, t, lo, hi) ==
    IF lo > hi THEN NoMatch
    ELSE IF lo = hi THEN MatchAt(lo, Match(re, t, At(lo)))
    ELSE LET left == SearchIn(re, t, lo, (lo + hi) \div 2)
         IN  IF left.found THEN left ELSE SearchIn(re, t, (lo + hi) \div 2 + 1, hi)

SearchFrom(re, t, from) == SearchIn(re, t, from, Len(t) + 1)

Search(re, t) == SearchFrom(re, t, 1)

\* m[0] and m[n] of a match
Whole(t, m) == SubSeq(t, m.from, m.to - 1)
Group(t, m, n) == SubSeq(t, m.g[n][1], m.g[n][2] - 1)

\* RegExp.prototype.test
Test(re, t) == Search(re, t).found

\* String.prototype.match with the g flag: the successive matches, as strings
RECURSIVE MatchAllFrom(_, _, _)
\* the next match m, and the matches after it
MatchAllAfter(re, t, m) ==
    IF ~m.found THEN <<>>
    ELSE <<Whole(t, m)>> \o
         MatchAllFrom(re, t, IF m.to = m.from THEN m.to + 1 ELSE m.to)

MatchAllFrom(re, t, from) == MatchAllAfter(re, t, SearchFrom(re, t, from))

MatchAll(re, t) == MatchAllFrom(re, t, 1)

-----------------------------------------------------------------------------
(* String methods *)

\* String.prototype.replace with a pattern without / with the g flag
\* t with the match m replaced
Replaced(t, by, m) ==
    IF ~m.found THEN t
    ELSE SubSeq(t, 1, m.from - 1) \o by \o SubSeq(t, m.to, Len(t))

ReplaceFirst(re, t, by) == Replaced(t, by, Search(re, t))

RECURSIVE ReplaceAllFrom(_, _, _, _)
\* t from position from on, with the next match m and those after it replaced
ReplacedAfter(re, t, by, from, m) ==
    IF ~m.found THEN SubSeq(t, from, Len(t))
    ELSE SubSeq(t, from, m.from - 1) \o by \o
         (IF m.to = m.from
          THEN SubSeq(t, m.from, m.from) \o ReplaceAllFrom(re, t, by, m.to + 1)
          ELSE ReplaceAllFrom(re, t, by, m.to))

ReplaceAllFrom(re, t, by, from) == ReplacedAfter(re, t, by, from, SearchFrom(re, t, from))

ReplaceAll(re, t, by) == ReplaceAllFrom(re, t, by, 1)

\* String.prototype.trim
RECURSIVE TrimStart(_)
TrimStart(s) ==
    IF Len(s) > 0 /\ CharAt(s, 1) \in SpaceChars THEN TrimStart(SubSeq(s, 2, Len(s))) ELSE s
RECURSIVE TrimEnd(_)
TrimEnd(s) ==
    IF Len(s) > 0 /\ CharAt(s, Len(s)) \in SpaceChars THEN TrimEnd(SubSeq(s, 1, Len(s) - 1)) ELSE s
Trim(s) == TrimEnd(TrimStart(s))

\* String.prototype.toLowerCase
RECURSIVE ToLowerCase(_)
ToLowerCase(s) ==
    IF s = "" THEN "" ELSE ToLowerChar(CharAt(s, 1)) \o ToLowerCase(SubSeq(s, 2, Len(s)))

\* String.prototype.substring(from, to), positions counted from 0
Substring(s, from, to) == SubSeq(s, from + 1, IF to < Len(s) THEN to ELSE Len(s))

\* String.prototype.includes
Includes(t, s) == \E i \in 1..(Len(t) - Len(s) + 1) : SubSeq(t, i, i + Len(s) - 1) = s

\* String.prototype.split with a pattern: the pieces between its matches
RECURSIVE SplitFrom(_, _, _, _)
\* the pieces from position piece on, m the next match from position from on
SplitAt(re, t, piece, from, m) ==
    IF ~m.found \/ m.from > Len(t) THEN <<SubSeq(t, piece, Len(t))>>
    ELSE IF m.to = m.from THEN SplitFrom(re, t, piece, from + 1)
    ELSE <<SubSeq(t, piece, m.from - 1)>> \o SplitFrom(re, t, m.to, m.to)

SplitFrom(re, t, piece, from) == SplitAt(re, t, piece, from, SearchFrom(re, t, from))

Split(re, t) == IF t = "" THEN <<"">> ELSE SplitFrom(re, t, 1, 1)

\* Array.prototype.join
RECURSIVE Join(_, _)
Join(xs, sep) ==
    IF xs = <<>> THEN ""
    ELSE IF Len(xs) = 1 THEN xs[1]
    ELSE xs[1] \o sep \o Join(Tail(xs), sep)

\* [...new Set(xs)]: the first occurrence of each element, in order
RECURSIVE Distinct(_)
Distinct(xs) ==
    IF xs = <<>> THEN <<>>
    ELSE LET init == Distinct(SubSeq(xs, 1, Len(xs) - 1))
             last == xs[Len(xs)]
         IN  IF \E k \in 1..Len(init) : init[k] = last THEN init ELSE Append(init, last)

\* Array.prototype.sort((a, b) => b.length - a.length): stable, longest first
RECURSIVE InsertByLength(_, _)
InsertByLength(sorted, x) ==
    IF sorted = <<>> THEN <<x>>
    ELSE IF Len(sorted[Len(sorted)]) >= Len(x) THEN Append(sorted, x)
    ELSE Append(InsertByLength(SubSeq(sorted, 1, Len(sorted) - 1), x), sorted[Len(sorted)])

\* the sort left out
SortSkipped(xs) == xs

RECURSIVE SortByLengthDesc(_)
SortByLengthDesc(xs) ==
    IF xs = <<>> THEN <<>>
    ELSE InsertByLength(SortByLengthDesc(SubSeq(xs, 1, Len(xs) - 1)), xs[Len(xs)])

\* the absent value of a field (JavaScript's null)
null == "<null>"

\* JavaScript truthiness of a field value that is null or a string
Truthy(v) == v # null /\ v # ""

-----------------------------------------------------------------------------
(* src/unnamed/part_000: the lookup tables of ExParser *)

\* table[key] of a JavaScript object: null stands for undefined
Lookup(table, key) == IF key \in DOMAIN table THEN table[key] ELSE null

CERT_BODIES ==
    << "BASEEFA", "SIRA", "DEKRA", "PTB", "INERIS", "CESI", "LCIE",
       "UL", "FM", "CSA Group", "CSA", "TÜV", "TUV", "SGS", "ZELM", "FTZU",
       "NEMKO", "DEMKO", "KEMA", "BVS", "IBExU", "CERCHAR",
       "SIMTARS", "MSHA", "ITS", "Intertek", "Bureau Veritas",
       "CML", "Eurofins", "Presafe", "Fiditas", "FIDITAS",
       "ExVeritas", "SGS-CSTC", "CQM", "PCEC", "NEPSI", "TIIS",
       "KOSHA", "KTL", "PESO", "CCOE", "DNV GL", "DNV",
       "EXAM", "Element", "TestSafe",
       "Physikalisch-Technische Bundesanstalt" >>

PROTECTION_TYPES ==
    [ d |-> "Flameproof enclosure", e |-> "Increased safety",
      i |-> "Intrinsic safety", p |-> "Pressurized enclosure",
      o |-> "Oil immersion", q |-> "Powder/sand filling",
      n |-> "Non-sparking", m |-> "Encapsulation",
      t |-> "Protection by enclosure", s |-> "Special protection",
      op |-> "Optical radiation", h |-> "Non-incendive" ]

GAS_GROUP_INFO ==
    [ IIC |-> "Hydrogen, acetylene (most stringent)", IIB |-> "Ethylene",
      IIA |-> "Propane (least stringent)", I |-> "Mining (methane)",
      IIIA |-> "Combustible flyings", IIIB |-> "Non-conductive dust",
      IIIC |-> "Conductive dust (most stringent)" ]

TEMP_CLASS_INFO ==
    [ T1 |-> "450°C", T2 |-> "300°C", T3 |-> "200°C",
      T4 |-> "135°C", T5 |-> "100°C", T6 |-> "85°C" ]

VALID_PROT_CODES ==
    { "d", "da", "db", "dc", "e", "ea", "eb", "ec", "i", "ia", "ib", "ic",
      "p", "pa", "pb", "pc", "px", "py", "pz", "o", "ob", "oc", "q", "qa", "qb",
      "n", "na", "nc", "nr", "nl", "m", "ma", "mb", "mc",
      "t", "ta", "tb", "tc", "s", "h", "op" }

eplZoneMap ==
    [ Ga |-> "0", Gb |-> "1", Gc |-> "2", Da |-> "20", Db |-> "21", Dc |-> "22",
      Ma |-> "M1", Mb |-> "M2" ]

-----------------------------------------------------------------------------
(* src/unnamed/part_000: the patterns of parse *)

\* pieces shared by several patterns
ABC == CharsOf("ABC")
GDM == CharsOf("GDM")
abc == CharsOf("abc")
T16 == CharsOf("123456")
\* [:\s]
ColonWs == Set(SpaceChars \cup {":"})
\* [\s./-]
DateSep == Set(SpaceChars \cup {".", "/", "-"})
\* [^\n]{3,n}
Line(n) == Rep(NSet({"\n"}), 3, n)

\* /IECEx\s+[A-Z]{2,5}\s+\d{2}\.\d{3,5}[A-Z]?(?:\/\d+\.\d+)?/i
iecexPat ==
    Cat(<<LitI("IECEx"), Plus(WS), Rep(SetI(Uppers), 2, 5), Plus(WS), Rep(Dig, 2, 2),
          Lit("."), Rep(Dig, 3, 5), Opt(SetI(Uppers)),
          Opt(Cat(<<Lit("/"), Plus(Dig), Lit("."), Plus(Dig)>>))>>)

\* /[A-Z]{2,10}\s*\d{2}\s*ATEX\s*\d{3,5}\s*[XU]?(?:\s*\/\s*V?\d[\w]*)?/i
atexPat ==
    Cat(<<Rep(SetI(Uppers), 2, 10), Star(WS), Rep(Dig, 2, 2), Star(WS), LitI("ATEX"),
          Star(WS), Rep(Dig, 3, 5), Star(WS), Opt(SetI({"X", "U"})),
          Opt(Cat(<<Star(WS), Lit("/"), Star(WS), Opt(SetI({"V"})), Dig,
                    Star(Set(WordChars))>>))>>)

\* /UKCA\s+[A-Z0-9\-.\/]+/i
ukcaPat ==
    Cat(<<LitI("UKCA"), Plus(WS), Plus(SetI(Uppers \cup Digits \cup {"-", ".", "/"}))>>)

\* /\d{2}\s*ATEX\s*\d{3,5}/i
atexAlsoPat ==
    Cat(<<Rep(Dig, 2, 2), Star(WS), LitI("ATEX"), Star(WS), Rep(Dig, 3, 5)>>)

\* \bEx\s+(?:[deimopqstnabrh]{1,4}\s+)+ under the i flag
ExCodes ==
    Cat(<<WordB, LitI("Ex"), Plus(WS),
          Plus(Cat(<<Rep(SetI(CharsOf("deimopqstnabrh")), 1, 4), Plus(WS)>>))>>)
\* (?:\[[a-z]{1,4}\]\s+)? under the i flag
Bracketed == Opt(Cat(<<Lit("["), Rep(SetI(Lowers), 1, 4), Lit("]"), Plus(WS)>>))
\* [GDM][abc] under the i flag
EplI == Cat(<<SetI(GDM), SetI(abc)>>)
\* T[1-6](?:\/T[1-6])* under the i flag
TClassI ==
    Cat(<<SetI({"T"}), Set(T16), Star(Cat(<<Lit("/"), SetI({"T"}), Set(T16)>>))>>)

markingPatterns ==
    << \* /\bEx\s+(?:[deimopqstnabrh]{1,4}\s+)+(?:\[[a-z]{1,4}\]\s+)?I{1,3}[ABC]*(?:\+H2)?\s+T[1-6](?:\/T[1-6])*\s*[GDM][abc](?:\/[GDM][abc])*/gi
       Cat(<<ExCodes, Bracketed, Rep(SetI({"I"}), 1, 3), Star(SetI(ABC)),
             Opt(Cat(<<Lit("+"), LitI("H2")>>)), Plus(WS), TClassI, Star(WS), EplI,
             Star(Cat(<<Lit("/"), EplI>>))>>),
       \* /\bEx\s+(?:[deimopqstnabrh]{1,4}\s+)+I\s+M[ab]/gi
       Cat(<<ExCodes, SetI({"I"}), Plus(WS), SetI({"M"}), SetI({"a", "b"})>>),
       \* /\bEx\s+(?:[deimopqstnabrh]{1,4}\s+)+I{2,3}[ABC]*\s+T\d+°?\s*C\s*[GDM][abc]/gi
       Cat(<<ExCodes, Rep(SetI({"I"}), 2, 3), Star(SetI(ABC)), Plus(WS), SetI({"T"}),
             Plus(Dig), Opt(Lit("°")), Star(WS), SetI({"C"}), Star(WS), EplI>>),
       \* /\bEx\s+(?:[deimopqstnabrh]{1,4}\s+)+(?:\[[a-z]{1,4}\]\s+)?I{1,3}[ABC]*(?:\+H2)?\s+T[1-6](?:\/T[1-6])*/gi
       Cat(<<ExCodes, Bracketed, Rep(SetI({"I"}), 1, 3), Star(SetI(ABC)),
             Opt(Cat(<<Lit("+"), LitI("H2")>>)), Plus(WS), TClassI>>),
       \* /\bEx\s+(?:[deimopqstnabrh]{1,4}\s+)+I{1,3}[ABC]*/gi
       Cat(<<ExCodes, Rep(SetI({"I"}), 1, 3), Star(SetI(ABC))>>) >>

\* /^Ex\s+(.*?)(?:\[.*?\]\s*)?(?=I{1,3})/i
protPat ==
    Cat(<<Bol, LitI("Ex"), Plus(WS), Grp(1, RepLazy(Dot, 0, -1)),
          Opt(Cat(<<Lit("["), RepLazy(Dot, 0, -1), Lit("]"), Star(WS)>>)),
          Ahead(Rep(SetI({"I"}), 1, 3))>>)

\* III[ABC]|II[ABC](?:\+H2)?
GasToken ==
    <<Cat(<<Lit("III"), Set(ABC)>>),
      Cat(<<Lit("II"), Set(ABC), Opt(Lit("+H2"))>>)>>
\* /\b(III[ABC]|II[ABC](?:\+H2)?)\b/
gasMarkingPat == Cat(<<WordB, Grp(1, Alt(GasToken)), WordB>>)
\* /\b(III[ABC]|II[ABC](?:\+H2)?|Group\s+I(?:I[ABC]?)?)\b/
gasTextPat ==
    Cat(<<WordB,
          Grp(1, Alt(GasToken \o
                     <<Cat(<<Lit("Group"), Plus(WS), Lit("I"),
                             Opt(Cat(<<Lit("I"), Opt(Set(ABC))>>))>>)>>)),
          WordB>>)
\* /^Group\s+/i
groupPrefixPat == Cat(<<Bol, LitI("Group"), Plus(WS)>>)
\* /\bT([1-6])\b/
tempPat == Cat(<<WordB, Lit("T"), Grp(1, Set(T16)), WordB>>)
\* /\b([GDM][abc])\b/
eplPat == Cat(<<WordB, Grp(1, Cat(<<Set(GDM), Set(abc)>>)), WordB>>)
\* /Zone\s+(\d{1,2})/i
zonePat == Cat(<<LitI("Zone"), Plus(WS), Grp(1, Rep(Dig, 1, 2))>>)
\* /\bIP\s*([0-9X]{2}[A-Z]?)\b/i
ipPat ==
    Cat(<<WordB, LitI("IP"), Star(WS),
          Grp(1, Cat(<<Rep(SetI(Digits \cup {"X"}), 2, 2), Opt(SetI(Uppers))>>)), WordB>>)
\* /(-\d+)\s*°?\s*C?\s*(to|\.{2,3}|–|—|-)\s*\+?(\d+)\s*°?\s*C/i
\* (the en dash and the em dash are outside the characters a string of this
\* module can hold; no text of the model contains them)
ambPat ==
    Cat(<<Grp(1, Cat(<<Lit("-"), Plus(Dig)>>)), Star(WS), Opt(Lit("°")), Star(WS),
          Opt(SetI({"C"})), Star(WS),
          Grp(2, Alt(<<LitI("to"), Rep(Set({"."}), 2, 3), Lit("-")>>)),
          Star(WS), Opt(Lit("+")), Grp(3, Plus(Dig)), Star(WS), Opt(Lit("°")), Star(WS),
          SetI({"C"})>>)

\* label[:\s]*\n\s*(value) and label[:\s]+(value)
NextLine(label, value) == Cat(<<label, Star(ColonWs), Lit("\n"), Star(WS), value>>)
SameLine(label, value) == Cat(<<label, Plus(ColonWs), value>>)
IssuedTo == Cat(<<LitI("Issued"), Plus(WS), LitI("to")>>)

mfrPatterns ==
    << \* /Manufacturer[:\s]*\n\s*Address[:\s]*\n\s*([^\n]{3,80})/i
       Cat(<<LitI("Manufacturer"), Star(ColonWs), Lit("\n"), Star(WS), LitI("Address"),
             Star(ColonWs), Lit("\n"), Star(WS), Grp(1, Line(80))>>),
       \* /Manufacturer[:\s]*\n\s*([^\n]{3,80})/i
       NextLine(LitI("Manufacturer"), Grp(1, Line(80))),
       \* /Manufacturer[:\s]+([^\n]{3,80})/i
       SameLine(LitI("Manufacturer"), Grp(1, Line(80))),
       \* /Applicant[:\s]*\n\s*([^\n]{3,80})/i
       NextLine(LitI("Applicant"), Grp(1, Line(80))),
       \* /Applicant[:\s]+([^\n]{3,80})/i
       SameLine(LitI("Applicant"), Grp(1, Line(80))),
       \* /Issued\s+to[:\s]*\n\s*([^\n]{3,80})/i
       NextLine(IssuedTo, Grp(1, Line(80))),
       \* /Issued\s+to[:\s]+([^\n]{3,80})/i
       SameLine(IssuedTo, Grp(1, Line(80))) >>

\* /^(Address|Name|Location|see\b|refer\b|as\s)/i
mfrDenyPat ==
    Cat(<<Bol, Alt(<<LitI("Address"), LitI("Name"), LitI("Location"),
                     Cat(<<LitI("see"), WordB>>), Cat(<<LitI("refer"), WordB>>),
                     Cat(<<LitI("as"), WS>>)>>)>>)

NotGroup == NotAhead(LitI("Group"))
TypeOfEquipment ==
    Cat(<<LitI("Type"), Plus(WS), LitI("of"), Plus(WS), LitI("Equipment")>>)

eqPatterns ==
    << \* /Equipment[:\s]*\n\s*(?!Group)([^\n]{3,120})/i
       NextLine(LitI("Equipment"), Cat(<<NotGroup, Grp(1, Line(120))>>)),
       \* /Equipment[:\s]+(?!Group)([^\n]{3,120})/i
       SameLine(LitI("Equipment"), Cat(<<NotGroup, Grp(1, Line(120))>>)),
       \* /Apparatus[:\s]+([^\n]{3,120})/i
       SameLine(LitI("Apparatus"), Grp(1, Line(120))),
       \* /Type\s+of\s+Equipment[:\s]+([^\n]{3,120})/i
       SameLine(TypeOfEquipment, Grp(1, Line(120))),
       \* /Product[:\s]*\n\s*([^\n]{3,120})/i
       NextLine(LitI("Product"), Grp(1, Line(120))),
       \* /Product[:\s]+([^\n]{3,120})/i
       SameLine(LitI("Product"), Grp(1, Line(120))) >>

\* /^(or\s+Protective|Intended\s+for|listed\s+in)/i
eqDenyPat ==
    Cat(<<Bol, Alt(<<Cat(<<LitI("or"), Plus(WS), LitI("Protective")>>),
                     Cat(<<LitI("Intended"), Plus(WS), LitI("for")>>),
                     Cat(<<LitI("listed"), Plus(WS), LitI("in")>>)>>)>>)

\* /[,\s]+$/
trailingPat == Cat(<<Plus(Set(SpaceChars \cup {","})), Eol>>)

\* (\d{4}[-/]\d{2}[-/]\d{2}) and (\d{1,2}[\s./-]\w{3,9}[\s./-]\d{4})
IsoDate ==
    Grp(1, Cat(<<Rep(Dig, 4, 4), Set({"-", "/"}), Rep(Dig, 2, 2), Set({"-", "/"}),
                 Rep(Dig, 2, 2)>>))
DayMonthYear ==
    Grp(1, Cat(<<Rep(Dig, 1, 2), DateSep, Rep(Set(WordChars), 3, 9), DateSep,
                 Rep(Dig, 4, 4)>>))
DateOfIssue == Cat(<<LitI("Date"), Plus(WS), LitI("of"), Plus(WS), LitI("Issue")>>)
\* Issue\s*(?:d|Date)
IssueD == Cat(<<LitI("Issue"), Star(WS), Alt(<<LitI("d"), LitI("Date")>>)>>)
\* Expir[ey]\s*(?:Date)?
Expiry == Cat(<<LitI("Expir"), SetI({"e", "y"}), Star(WS), Opt(LitI("Date"))>>)
\* Valid\s+(?:until|to)
ValidTo == Cat(<<LitI("Valid"), Plus(WS), Alt(<<LitI("until"), LitI("to")>>)>>)

issuePats ==
    << \* /Date\s+of\s+Issue[:\s]*\n?\s*(\d{4}[-/]\d{2}[-/]\d{2})/i
       Cat(<<DateOfIssue, Star(ColonWs), Opt(Lit("\n")), Star(WS), IsoDate>>),
       \* /Date\s+of\s+Issue[:\s]+(\d{1,2}[\s./-]\w{3,9}[\s./-]\d{4})/i
       SameLine(DateOfIssue, DayMonthYear),
       \* /Issue\s*(?:d|Date)[:\s]+(\d{4}[-/]\d{2}[-/]\d{2})/i
       SameLine(IssueD, IsoDate),
       \* /Issue\s*(?:d|Date)[:\s]+(\d{1,2}[\s./-]\w{3,9}[\s./-]\d{4})/i
       SameLine(IssueD, DayMonthYear),
       \* /Issued[:\s]+(\d{1,2}[\s./-]\w{3,9}[\s./-]\d{4})/i
       SameLine(LitI("Issued"), DayMonthYear) >>

expiryPats ==
    << \* /Expir[ey]\s*(?:Date)?[:\s]+(\d{4}[-/]\d{2}[-/]\d{2})/i
       SameLine(Expiry, IsoDate),
       \* /Expir[ey]\s*(?:Date)?[:\s]+(\d{1,2}[\s./-]\w{3,9}[\s./-]\d{4})/i
       SameLine(Expiry, DayMonthYear),
       \* /Valid\s+(?:until|to)[:\s]+(\d{4}[-/]\d{2}[-/]\d{2})/i
       SameLine(ValidTo, IsoDate),
       \* /Valid\s+(?:until|to)[:\s]+(\d{1,2}[\s./-]\w{3,9}[\s./-]\d{4})/i
       SameLine(ValidTo, DayMonthYear),
       \* /Validity[:\s]+(\d{1,2}[\s./-]\w{3,9}[\s./-]\d{4})/i
       SameLine(LitI("Validity"), DayMonthYear) >>

\* /Special\s+[Cc]onditions?\s*(?:for\s+(?:safe\s+)?use)?[:\s]+([\s\S]{10,500}?)(?=\n\s*\n|\n[A-Z]{2,}|\n\d+\.\s|$)/i
specPat ==
    Cat(<<LitI("Special"), Plus(WS), LitI("condition"), Opt(SetI({"s"})), Star(WS),
          Opt(Cat(<<LitI("for"), Plus(WS), Opt(Cat(<<LitI("safe"), Plus(WS)>>)),
                    LitI("use")>>)),
          Plus(ColonWs), Grp(1, RepLazy(AnyChar, 10, 500)),
          Ahead(Alt(<<Cat(<<Lit("\n"), Star(WS), Lit("\n")>>),
                      Cat(<<Lit("\n"), Rep(SetI(Uppers), 2, -1)>>),
                      Cat(<<Lit("\n"), Plus(Dig), Lit("."), WS>>),
                      Eol>>))>>)

\* /(?:EN\s+)?(?:IEC\s*)?60079-\d+(?::\d{4})?(?:\+A\d+:\d{4})*/gi
stdPat ==
    Cat(<<Opt(Cat(<<LitI("EN"), Plus(WS)>>)), Opt(Cat(<<LitI("IEC"), Star(WS)>>)),
          Lit("60079-"), Plus(Dig), Opt(Cat(<<Lit(":"), Rep(Dig, 4, 4)>>)),
          Star(Cat(<<Lit("+"), SetI({"A"}), Plus(Dig), Lit(":"), Rep(Dig, 4, 4)>>))>>)

\* /\bII\s+([1-3])\s+[GDM]\b/
catMarkPat ==
    Cat(<<WordB, Lit("II"), Plus(WS), Grp(1, Set({"1", "2", "3"})), Plus(WS), Set(GDM),
          WordB>>)
\* /\bCategory\s+([1-3][GDM]?)\b/i
catLabelPat ==
    Cat(<<WordB, LitI("Category"), Plus(WS),
          Grp(1, Cat(<<Set({"1", "2", "3"}), Opt(SetI(GDM))>>)), WordB>>)
\* /Equipment\s+[Gg]roup\s+(I{1,3})/
grpPat ==
    Cat(<<Lit("Equipment"), Plus(WS), Set({"G", "g"}), Lit("roup"), Plus(WS),
          Grp(1, Rep(Set({"I"}), 1, 3))>>)
\* /\b(I{2,3})\s+[1-3]\s+[GDM]\b/
grpAltPat ==
    Cat(<<WordB, Grp(1, Rep(Set({"I"}), 2, 3)), Plus(WS), Set({"1", "2", "3"}), Plus(WS),
          Set(GDM), WordB>>)

-----------------------------------------------------------------------------
(* src/unnamed/part_000: parse, section by section *)

\* --- Certificate Number ---: [certNumber, certType], one step for each
\* pattern; r is what the steps before have set
iecexStep(t) ==
    LET iecex == Search(iecexPat, t)
    IN  IF iecex.found
        THEN [certNumber |-> Trim(ReplaceAll(Plus(WS), Whole(t, iecex), " ")),
              certType |-> "IECEx"]
        ELSE [certNumber |-> null, certType |-> null]

\* the ATEX step without its test of result.certNumber
atexStepAlways(r, t) ==
    LET atex == Search(atexPat, t)
    IN  IF atex.found
        THEN [certNumber |-> Trim(ReplaceAll(Plus(WS), Whole(t, atex), "")),
              certType |-> "ATEX"]
        ELSE r

atexStep(r, t) ==
    LET atex == Search(atexPat, t)
    IN  IF ~Truthy(r.certNumber) /\ atex.found
        THEN [certNumber |-> Trim(ReplaceAll(Plus(WS), Whole(t, atex), "")),
              certType |-> "ATEX"]
        ELSE r

ukcaStep(r, t) ==
    LET ukca == Search(ukcaPat, t)
    IN  IF ~Truthy(r.certNumber) /\ ukca.found
        THEN [certNumber |-> Trim(Whole(t, ukca)), certType |-> "UKCA"]
        ELSE r

\* the dual-certification step without its test of result.certType
atexAlsoStepUnguarded(r, t) ==
    IF Test(atexAlsoPat, t)
    THEN [r EXCEPT !.certType = "IECEx + ATEX"]
    ELSE r

atexAlsoStep(r, t) ==
    IF r.certType = "IECEx" /\ Test(atexAlsoPat, t)
    THEN [r EXCEPT !.certType = "IECEx + ATEX"]
    ELSE r

certificate(t) == atexAlsoStep(ukcaStep(atexStep(iecexStep(t), t), t), t)

\* m.trim().replace(/\s+/g, ' ') of every match of one marking pattern
cleanedMatches(pat, t) ==
    LET ms == MatchAll(pat, t)
    IN  [k \in 1..Len(ms) |-> ReplaceAll(Plus(WS), Trim(ms[k]), " ")]

\* the cleaned matches of the first k marking patterns, in pattern order
RECURSIVE markingCandidates(_, _)
markingCandidates(k, t) ==
    IF k = 0 THEN <<>>
    ELSE markingCandidates(k - 1, t) \o cleanedMatches(markingPatterns[k], t)

\* --- Full Ex Marking ---: allMarkings after the seenMarkings filter and the sort
allMarkings(t) ==
    SortByLengthDesc(Distinct(markingCandidates(Len(markingPatterns), t)))

\* s.replace(/[x]$/, '') for a set of characters
StripLast(s, cs) ==
    IF Len(s) > 0 /\ CharAt(s, Len(s)) \in cs THEN SubSeq(s, 1, Len(s) - 1) ELSE s

\* a || b of two values that are null or strings
OrElse(a, b) == IF Truthy(a) THEN a ELSE b

isValidCode(c) ==
    LET cl == ToLowerCase(c)
    IN  cl \in VALID_PROT_CODES \/ StripLast(cl, abc) \in VALID_PROT_CODES

protectionEntry(code) ==
    LET cl == ToLowerCase(code)
        baseCode == StripLast(cl, CharsOf("abcrs"))
        level == IF Len(cl) > 0 /\ CharAt(cl, Len(cl)) \in abc
                 THEN CharAt(cl, Len(cl)) ELSE null
    IN  [code |-> code, baseType |-> baseCode, level |-> level,
         description |-> OrElse(OrElse(Lookup(PROTECTION_TYPES, baseCode),
                                       Lookup(PROTECTION_TYPES, cl)), "Unknown")]

\* --- Protection Types ---
protectionTypes(markingSrc) ==
    LET protMatch == Search(protPat, markingSrc)
    IN  IF ~protMatch.found THEN <<>>
        ELSE LET raw == Trim(Group(markingSrc, protMatch, 1))
                 codes == SelectSeq(Split(Plus(WS), raw), isValidCode)
             IN  [k \in 1..Len(codes) |-> protectionEntry(codes[k])]

\* a || b of two matches
OrMatch(a, b) == IF a.found THEN a ELSE b

\* --- Gas Group ---: [gasGroup, gasGroupInfo]
gasGroup(markingSrc, t) ==
    LET gasFromMarking == Search(gasMarkingPat, markingSrc)
        gasFromText == Search(gasTextPat, t)
    IN  IF gasFromMarking.found
        THEN LET group == ReplaceFirst(groupPrefixPat, Group(markingSrc, gasFromMarking, 1), "")
             IN  [gasGroup |-> group, gasGroupInfo |-> Lookup(GAS_GROUP_INFO, group)]
        ELSE IF gasFromText.found
        THEN LET group == ReplaceFirst(groupPrefixPat, Group(t, gasFromText, 1), "")
             IN  [gasGroup |-> group, gasGroupInfo |-> Lookup(GAS_GROUP_INFO, group)]
        ELSE [gasGroup |-> null, gasGroupInfo |-> null]

\* the text asked before the marking
textFirst(pat, markingSrc, t) ==
    LET fromMarking == Search(pat, markingSrc)
        fromText == Search(pat, t)
    IN  IF fromText.found THEN Group(t, fromText, 1)
        ELSE IF fromMarking.found THEN Group(markingSrc, fromMarking, 1)
        ELSE null

\* m[1] of (from the marking) || (from the text), null without a match
markingFirst(pat, markingSrc, t) ==
    LET fromMarking == Search(pat, markingSrc)
        fromText == Search(pat, t)
    IN  IF fromMarking.found THEN Group(markingSrc, fromMarking, 1)
        ELSE IF fromText.found THEN Group(t, fromText, 1)
        ELSE null

\* --- Temperature Class ---: [tempClass, tempClassMax]
tempClass(markingSrc, t) ==
    LET digit == markingFirst(tempPat, markingSrc, t)
    IN  IF digit = null THEN [tempClass |-> null, tempClassMax |-> null]
        ELSE [tempClass |-> "T" \o digit,
              tempClassMax |-> Lookup(TEMP_CLASS_INFO, "T" \o digit)]

\* --- Equipment Protection Level ---
epl(markingSrc, t) == markingFirst(eplPat, markingSrc, t)

\* the zone derived from the protection level before the text is looked at
zoneDerivedFirst(t, eplValue) ==
    LET zoneMatch == Search(zonePat, t)
    IN  IF Truthy(eplValue) /\ Truthy(Lookup(eplZoneMap, eplValue))
        THEN "Zone " \o Lookup(eplZoneMap, eplValue) \o " (derived from EPL)"
        ELSE IF zoneMatch.found THEN "Zone " \o Group(t, zoneMatch, 1)
        ELSE null

\* --- Zone ---
zone(t, eplValue) ==
    LET zoneMatch == Search(zonePat, t)
    IN  IF zoneMatch.found THEN "Zone " \o Group(t, zoneMatch, 1)
        ELSE IF Truthy(eplValue) /\ Truthy(Lookup(eplZoneMap, eplValue))
        THEN "Zone " \o Lookup(eplZoneMap, eplValue) \o " (derived from EPL)"
        ELSE null

\* --- IP Rating ---
ipRating(t) ==
    LET ipMatch == Search(ipPat, t)
    IN  IF ipMatch.found THEN "IP" \o Group(t, ipMatch, 1) ELSE null

\* --- Ambient Temperature ---
ambientTemp(t) ==
    LET ambMatch == Search(ambPat, t)
    IN  IF ambMatch.found
        THEN Group(t, ambMatch, 1) \o "°C to +" \o Group(t, ambMatch, 3) \o "°C"
        ELSE null

\* the loops over mfrPatterns and eqPatterns, from pattern k on: the first
\* value that passes the deny pattern and the length test
RECURSIVE labelled(_, _, _, _)
labelled(pats, deny, k, t) ==
    IF k > Len(pats) THEN null
    ELSE LET m == Search(pats[k], t)
             val == ReplaceFirst(trailingPat, Trim(Group(t, m, 1)), "")
         IN  IF ~m.found THEN labelled(pats, deny, k + 1, t)
             ELSE IF Test(deny, val) THEN labelled(pats, deny, k + 1, t)
             ELSE IF Len(val) < 3 THEN labelled(pats, deny, k + 1, t)
             ELSE val

\* --- Manufacturer ---
manufacturer(t) == labelled(mfrPatterns, mfrDenyPat, 1, t)
\* --- Equipment / Product Name ---
equipment(t) == labelled(eqPatterns, eqDenyPat, 1, t)

sortedBodies == SortByLengthDesc(CERT_BODIES)

\* the first name of the list that the text includes
RECURSIVE firstIncluded(_, _, _)
firstIncluded(bodies, k, t) ==
    IF k > Len(bodies) THEN null
    ELSE IF Includes(t, bodies[k]) THEN bodies[k]
    ELSE firstIncluded(bodies, k + 1, t)

\* --- Notified Body ---
notifiedBody(t) == firstIncluded(sortedBodies, 1, t)

\* the loops over issuePats and expiryPats: m[1].trim() of the first match
RECURSIVE firstDate(_, _, _)
firstDate(pats, k, t) ==
    IF k > Len(pats) THEN null
    ELSE LET m == Search(pats[k], t)
         IN  IF m.found THEN Trim(Group(t, m, 1)) ELSE firstDate(pats, k + 1, t)

\* --- Dates ---
issueDate(t) == firstDate(issuePats, 1, t)
expiryDate(t) == firstDate(expiryPats, 1, t)

\* --- Special Conditions ---
specialConditions(t) ==
    LET specMatch == Search(specPat, t)
    IN  IF specMatch.found THEN Substring(Trim(Group(t, specMatch, 1)), 0, 500) ELSE null

\* --- Standards ---
standard(t) ==
    LET stdMatches == MatchAll(stdPat, t)
    IN  IF stdMatches = <<>> THEN null
        ELSE Join(Distinct([k \in 1..Len(stdMatches) |-> Trim(stdMatches[k])]), ", ")

\* --- ATEX Category ---
category(t) ==
    LET catMatch == OrMatch(Search(catMarkPat, t), Search(catLabelPat, t))
    IN  IF catMatch.found THEN Group(t, catMatch, 1) ELSE null

\* the label form left out
groupAltOnly(t) ==
    LET grpAlt == Search(grpAltPat, t)
    IN  IF grpAlt.found THEN Group(t, grpAlt, 1) ELSE null

\* --- Equipment Group ---
group(t) ==
    LET grpMatch == Search(grpPat, t)
        grpAlt == Search(grpAltPat, t)
    IN  IF grpMatch.found THEN Group(t, grpMatch, 1)
        ELSE IF grpAlt.found THEN Group(t, grpAlt, 1)
        ELSE null

\* the record of parse, given the sorted list of marking candidates
recordOf(t, cert, all) ==
    LET marking == IF Len(all) > 0 THEN all[1] ELSE null
        markingSrc == OrElse(marking, "")
        gas == gasGroup(markingSrc, t)
        temp == tempClass(markingSrc, t)
        eplValue == epl(markingSrc, t)
    IN  [ certNumber |-> cert.certNumber,
          certType |-> cert.certType,
          marking |-> marking,
          markings |-> all,
          protectionTypes |-> protectionTypes(markingSrc),
          gasGroup |-> gas.gasGroup,
          gasGroupInfo |-> gas.gasGroupInfo,
          tempClass |-> temp.tempClass,
          tempClassMax |-> temp.tempClassMax,
          epl |-> eplValue,
          zone |-> zone(t, eplValue),
          ipRating |-> ipRating(t),
          ambientTemp |-> ambientTemp(t),
          manufacturer |-> manufacturer(t),
          equipment |-> equipment(t),
          notifiedBody |-> notifiedBody(t),
          issueDate |-> issueDate(t),
          expiryDate |-> expiryDate(t),
          specialConditions |-> specialConditions(t),
          standard |-> standard(t),
          category |-> category(t),
          group |-> group(t),
          raw |-> t ]

\* ExParser.parse of src/unnamed/part_000
parse(t) == recordOf(t, certificate(t), allMarkings(t))

\* the weights of confidence, in the order of Object.entries
weights ==
    << <<"certNumber", 20>>, <<"marking", 20>>, <<"gasGroup", 10>>, <<"tempClass", 10>>,
       <<"protectionTypes", 10>>, <<"epl", 5>>, <<"manufacturer", 5>>, <<"equipment", 5>>,
       <<"notifiedBody", 5>>, <<"ipRating", 3>>, <<"ambientTemp", 3>>, <<"issueDate", 2>>,
       <<"expiryDate", 2>> >>

\* the fields of a record that hold arrays
ArrayFields == {"markings", "protectionTypes"}

\* val && (Array.isArray(val) ? val.length > 0 : true)
counts(rec, field) ==
    IF field \in ArrayFields THEN Len(rec[field]) > 0 ELSE Truthy(rec[field])

\* the score after the first k entries of weights
RECURSIVE scoreUpTo(_, _)
scoreUpTo(rec, k) ==
    IF k = 0 THEN 0
    ELSE scoreUpTo(rec, k - 1) + (IF counts(rec, weights[k][1]) THEN weights[k][2] ELSE 0)

Min(a, b) == IF a < b THEN a ELSE b

\* the weight of the first entry added twice, and no cap
confidenceFirstTwice(rec) == scoreUpTo(rec, Len(weights)) + scoreUpTo(rec, 1)

\* ExParser.confidence (the same in both files)
confidence(rec) == Min(100, scoreUpTo(rec, Len(weights)))

-----------------------------------------------------------------------------
(* src/js/parser.js: the other ExParser; what differs from part_000 *)

CERT_BODIES_Js ==
    << "BASEEFA", "SIRA", "DEKRA", "PTB", "INERIS", "CESI", "LCIE",
       "UL", "FM", "CSA", "TÜV", "TUV", "SGS", "ZELM", "FTZU",
       "NEMKO", "DEMKO", "KEMA", "BVS", "IBExU", "CERCHAR",
       "SIMTARS", "MSHA", "ITS", "Intertek", "Bureau Veritas",
       "CML", "Eurofins", "Presafe", "Fiditas", "FIDITAS",
       "ExVeritas", "SGS-CSTC", "CQM", "PCEC", "NEPSI", "TIIS",
       "KOSHA", "KTL", "PESO", "CCOE", "DNV GL", "DNV",
       "EXAM", "ATEX Notified Body" >>

validCodesJs ==
    { "d", "da", "db", "dc", "e", "ea", "eb", "ec", "i", "ia", "ib", "ic",
      "p", "pa", "pb", "pc", "o", "q", "n", "nA", "nC", "nR", "m", "ma", "mb", "mc",
      "t", "ta", "tb", "tc", "s", "h", "op", "op_is", "op_pr", "op_sh" }

\* /([A-Z]{2,10}\s+)?\d{2}\s*ATEX\s*\d{3,5}\s*[XU]?(?:\/\d+)?/i
atexPatJs ==
    Cat(<<Opt(Grp(1, Cat(<<Rep(SetI(Uppers), 2, 10), Plus(WS)>>))), Rep(Dig, 2, 2), Star(WS),
          LitI("ATEX"), Star(WS), Rep(Dig, 3, 5), Star(WS), Opt(SetI({"X", "U"})),
          Opt(Cat(<<Lit("/"), Plus(Dig)>>))>>)

\* /\d{2}ATEX\d{3,5}/i
atexAlsoPatJs == Cat(<<Rep(Dig, 2, 2), LitI("ATEX"), Rep(Dig, 3, 5)>>)

\* [deimopqstnabrh]{1,4} under the i flag
CodeRunI == Rep(SetI(CharsOf("deimopqstnabrh")), 1, 4)

\* /\bEx\s+[deimopqstnabrh]{1,4}\s+(?:[deimopqstnabrh]{1,4}\s+)?(?:ia\s+|ib\s+|ic\s+)?I{1,3}[ABC]*(?:\+H2)?\s+T[1-6]\s*[GDM][abc]/gi
markingPatJs ==
    Cat(<<WordB, LitI("Ex"), Plus(WS), CodeRunI, Plus(WS),
          Opt(Cat(<<CodeRunI, Plus(WS)>>)),
          Opt(Alt(<<Cat(<<LitI("ia"), Plus(WS)>>), Cat(<<LitI("ib"), Plus(WS)>>),
                    Cat(<<LitI("ic"), Plus(WS)>>)>>)),
          Rep(SetI({"I"}), 1, 3), Star(SetI(ABC)), Opt(Cat(<<Lit("+"), LitI("H2")>>)),
          Plus(WS), SetI({"T"}), Set(T16), Star(WS), EplI>>)

\* /\bEx\s+[deimopqstnabrh]{1,4}(?:\s+[deimopqstnabrh]{1,4})*\s+I{1,3}[ABC]*/gi
simpleMarkingPatJs ==
    Cat(<<WordB, LitI("Ex"), Plus(WS), CodeRunI, Star(Cat(<<Plus(WS), CodeRunI>>)),
          Plus(WS), Rep(SetI({"I"}), 1, 3), Star(SetI(ABC))>>)

\* /\bEx\s+((?:[deimopqstnh][abcrs]?(?:\s+|(?=[IV]))){1,4})/i
protPatJs ==
    Cat(<<WordB, LitI("Ex"), Plus(WS),
          Grp(1, Rep(Cat(<<SetI(CharsOf("deimopqstnh")), Opt(SetI(CharsOf("abcrs"))),
                           Alt(<<Plus(WS), Ahead(SetI({"I", "V"}))>>)>>), 1, 4))>>)

mfrPatternsJs ==
    << \* /Manufacturer[:\s]+([^\n]{3,80})/i
       SameLine(LitI("Manufacturer"), Grp(1, Line(80))),
       \* /Applicant[:\s]+([^\n]{3,80})/i
       SameLine(LitI("Applicant"), Grp(1, Line(80))),
       \* /Issued\s+to[:\s]+([^\n]{3,80})/i
       SameLine(IssuedTo, Grp(1, Line(80))),
       \* /Company[:\s]+([^\n]{3,80})/i
       SameLine(LitI("Company"), Grp(1, Line(80))) >>

eqPatternsJs ==
    << \* /Product[:\s]+([^\n]{3,120})/i
       SameLine(LitI("Product"), Grp(1, Line(120))),
       \* /Apparatus[:\s]+([^\n]{3,120})/i
       SameLine(LitI("Apparatus"), Grp(1, Line(120))),
       \* /Equipment[:\s]+(?!Group)([^\n]{3,120})/i
       SameLine(LitI("Equipment"), Cat(<<NotGroup, Grp(1, Line(120))>>)),
       \* /Type\s+of\s+Equipment[:\s]+([^\n]{3,120})/i
       SameLine(TypeOfEquipment, Grp(1, Line(120))) >>

issuePatsJs ==
    << \* /Issue\s*(?:d|Date)[:\s]+(\d{1,2}[\s./-]\w{3,9}[\s./-]\d{4})/i
       SameLine(IssueD, DayMonthYear),
       \* /Issue\s*(?:d|Date)[:\s]+(\d{4}[-/]\d{2}[-/]\d{2})/i
       SameLine(IssueD, IsoDate),
       \* /Date\s+of\s+Issue[:\s]+(\d{1,2}[\s./-]\w{3,9}[\s./-]\d{4})/i
       SameLine(DateOfIssue, DayMonthYear),
       \* /Issued[:\s]+(\d{1,2}[\s./-]\w{3,9}[\s./-]\d{4})/i
       SameLine(LitI("Issued"), DayMonthYear) >>

expiryPatsJs ==
    << \* /Expir[ey]\s*(?:Date)?[:\s]+(\d{1,2}[\s./-]\w{3,9}[\s./-]\d{4})/i
       SameLine(Expiry, DayMonthYear),
       \* /Valid\s+(?:until|to)[:\s]+(\d{1,2}[\s./-]\w{3,9}[\s./-]\d{4})/i
       SameLine(ValidTo, DayMonthYear),
       \* /Validity[:\s]+(\d{1,2}[\s./-]\w{3,9}[\s./-]\d{4})/i
       SameLine(LitI("Validity"), DayMonthYear) >>

\* /IEC\s*60079-\d+(?::\d{4})?/gi
stdPatJs ==
    Cat(<<LitI("IEC"), Star(WS), Lit("60079-"), Plus(Dig), Opt(Cat(<<Lit(":"), Rep(Dig, 4, 4)>>))>>)

\* --- Certificate Number ---
iecexStepJs(t) ==
    LET iecex == Search(iecexPat, t)
    IN  IF iecex.found
        THEN [certNumber |-> Trim(Whole(t, iecex)), certType |-> "IECEx"]
        ELSE [certNumber |-> null, certType |-> null]

atexStepJs(r, t) ==
    LET atex == Search(atexPatJs, t)
    IN  IF ~Truthy(r.certNumber) /\ atex.found
        THEN [certNumber |-> Trim(Whole(t, atex)), certType |-> "ATEX"]
        ELSE r

atexAlsoStepJs(r, t) ==
    IF r.certType = "IECEx" /\ Test(atexAlsoPatJs, t)
    THEN [r EXCEPT !.certType = "IECEx + ATEX"]
    ELSE r

certificateJs(t) == atexAlsoStepJs(ukcaStep(atexStepJs(iecexStepJs(t), t), t), t)

\* --- Full Ex Marking ---: the first full marking, else the first simple one
markingJs(t) ==
    LET markingMatch == Search(markingPatJs, t)
        simpleMarking == Search(simpleMarkingPatJs, t)
    IN  IF markingMatch.found THEN Trim(Whole(t, markingMatch))
        ELSE IF simpleMarking.found THEN Trim(Whole(t, simpleMarking))
        ELSE null

isValidCodeJs(c) ==
    LET cl == ToLowerCase(c)
    IN  cl \in validCodesJs \/ StripLast(cl, abc) \in validCodesJs

protectionEntryJs(code) ==
    LET cl == ToLowerCase(code)
        baseCode == StripLast(cl, abc)
        level == IF Len(cl) > 0 /\ CharAt(cl, Len(cl)) \in abc
                 THEN CharAt(cl, Len(cl)) ELSE null
    IN  [code |-> code, baseType |-> baseCode, level |-> level,
         description |-> OrElse(OrElse(Lookup(PROTECTION_TYPES, baseCode),
                                       Lookup(PROTECTION_TYPES, cl)), "Unknown")]

\* --- Protection Types ---: matched against the text t
protectionTypesJs(t) ==
    LET protMatch == Search(protPatJs, t)
    IN  IF ~protMatch.found THEN <<>>
        ELSE LET raw == Trim(Group(t, protMatch, 1))
                 codes == SelectSeq(Split(Plus(WS), raw), isValidCodeJs)
             IN  [k \in 1..Len(codes) |-> protectionEntryJs(codes[k])]

\* --- Gas Group ---
gasGroupJs(t) ==
    LET gasMatch == Search(gasTextPat, t)
    IN  IF gasMatch.found
        THEN LET g == ReplaceFirst(groupPrefixPat, Group(t, gasMatch, 1), "")
             IN  [gasGroup |-> g, gasGroupInfo |-> Lookup(GAS_GROUP_INFO, g)]
        ELSE [gasGroup |-> null, gasGroupInfo |-> null]

\* --- Temperature Class ---
tempClassJs(t) ==
    LET tempMatch == Search(tempPat, t)
    IN  IF tempMatch.found
        THEN [tempClass |-> "T" \o Group(t, tempMatch, 1),
              tempClassMax |-> Lookup(TEMP_CLASS_INFO, "T" \o Group(t, tempMatch, 1))]
        ELSE [tempClass |-> null, tempClassMax |-> null]

\* --- Equipment Protection Level ---
eplJs(t) ==
    LET eplMatch == Search(eplPat, t)
    IN  IF eplMatch.found THEN Group(t, eplMatch, 1) ELSE null

\* the loops over mfrPatterns and eqPatterns: the first match, unfiltered
RECURSIVE labelledJs(_, _, _)
labelledJs(pats, k, t) ==
    IF k > Len(pats) THEN null
    ELSE LET m == Search(pats[k], t)
         IN  IF m.found THEN ReplaceFirst(trailingPat, Trim(Group(t, m, 1)), "")
             ELSE labelledJs(pats, k + 1, t)

\* --- Manufacturer ---
manufacturerJs(t) == labelledJs(mfrPatternsJs, 1, t)
\* --- Equipment / Product Name ---
equipmentJs(t) == labelledJs(eqPatternsJs, 1, t)

\* --- Notified Body ---: CERT_BODIES in the order it is written
notifiedBodyJs(t) == firstIncluded(CERT_BODIES_Js, 1, t)

\* --- Standards ---
standardJs(t) ==
    LET stdMatches == MatchAll(stdPatJs, t)
    IN  IF stdMatches = <<>> THEN null ELSE Join(Distinct(stdMatches), ", ")

\* --- ATEX Category ---
categoryJs(t) ==
    LET catMatch == OrMatch(Search(catLabelPat, t), Search(catMarkPat, t))
    IN  IF catMatch.found THEN Group(t, catMatch, 1) ELSE null

\* --- Equipment Group ---
groupJs(t) ==
    LET grpMatch == Search(grpPat, t)
    IN  IF grpMatch.found THEN Group(t, grpMatch, 1) ELSE null

\* ExParser.parse of src/js/parser.js
parseJs(t) ==
    LET cert == certificateJs(t)
        gas == gasGroupJs(t)
        temp == tempClassJs(t)
        eplValue == eplJs(t)
    IN  [ certNumber |-> cert.certNumber,
          certType |-> cert.certType,
          marking |-> markingJs(t),
          protectionTypes |-> protectionTypesJs(t),
          gasGroup |-> gas.gasGroup,
          gasGroupInfo |-> gas.gasGroupInfo,
          tempClass |-> temp.tempClass,
          tempClassMax |-> temp.tempClassMax,
          epl |-> eplValue,
          zone |-> zone(t, eplValue),
          ipRating |-> ipRating(t),
          ambientTemp |-> ambientTemp(t),
          manufacturer |-> manufacturerJs(t),
          equipment |-> equipmentJs(t),
          notifiedBody |-> notifiedBodyJs(t),
          issueDate |-> firstDate(issuePatsJs, 1, t),
          expiryDate |-> firstDate(expiryPatsJs, 1, t),
          specialConditions |-> specialConditions(t),
          standard |-> standardJs(t),
          category |-> categoryJs(t),
          group |-> groupJs(t),
          raw |-> t ]

-----------------------------------------------------------------------------
(* src/unnamed/part_000: the page.  History and CSV export                 *)

\* null where an object is expected
NoResult == <<>>

\* the value of a property an object does not have
undefined == "<undefined>"

\* item[f]
Prop(item, f) == IF f \in DOMAIN item THEN item[f] ELSE undefined

\* { ...rec, more }: the properties of more added to, or put in place of, rec's
Spread(rec, more) == more @@ rec

\* const { raw, ...clean } = result
withoutRaw(rec) == [f \in DOMAIN rec \ {"raw"} |-> rec[f]]

\* the properties of a scan result that hold an array, a number or a boolean
NotStrings == ArrayFields \cup {"confidence", "usedOcr"}

\* JSON.stringify of an array of records followed by JSON.parse: a property
\* whose value is undefined is left out, every other value comes back as it was
jsonOf(xs) ==
    [k \in 1..Len(xs) |->
        [f \in {g \in DOMAIN xs[k] : g \in NotStrings \/ xs[k][g] # undefined} |-> xs[k][f]]]

\* localStorage: no item under STORAGE_KEY, or the item setItem stored
NoItem == [stored |-> FALSE, items |-> <<>>]
Item(xs) == [stored |-> TRUE, items |-> jsonOf(xs)]

\* getHistory: JSON.parse(localStorage.getItem(STORAGE_KEY) || '[]')
getHistory(store) == IF store.stored THEN store.items ELSE <<>>

\* "Keep max 50"
HistoryCap == 50

\* a history that keeps its oldest entries
truncatedOldest(xs) ==
    IF Len(xs) > HistoryCap THEN SubSeq(xs, Len(xs) - HistoryCap + 1, Len(xs)) ELSE xs

\* history.length = 50 on a longer array
truncated(xs) == IF Len(xs) > HistoryCap THEN SubSeq(xs, 1, HistoryCap) ELSE xs

\* a save that does not read what is stored
saveOverwriting(store, rec) == Item(<<withoutRaw(rec)>>)

\* saveToHistory(result): what localStorage holds afterwards
saveToHistory(store, rec) == Item(truncated(<<withoutRaw(rec)>> \o getHistory(store)))

\* the columns of exportCsv
csvFields ==
    << "certNumber", "certType", "marking", "gasGroup", "tempClass",
       "epl", "zone", "ipRating", "ambientTemp", "manufacturer",
       "equipment", "notifiedBody", "issueDate", "expiryDate",
       "category", "group", "standard", "specialConditions", "fileName", "scannedAt" >>

\* val.map(v => v.code || v).join('; ') of an array of entries
codesOf(val) == Join([k \in 1..Len(val) |-> OrElse(val[k].code, val[k])], "; ")

\* one value of a row: the arrays of an item are the properties ArrayFields
\* names (Array.isArray), null and undefined become ''
csvValue(item, f) ==
    IF Prop(item, f) = undefined THEN ""
    ELSE IF f \in ArrayFields THEN codesOf(item[f])
    ELSE IF item[f] = null THEN ""
    ELSE item[f]

\* a value between double quotes, as it is
quotedAsIs(val) == "\"" \o val \o "\""

\* `"${String(val).replace(/"/g, '""')}"`
quoted(val) == "\"" \o ReplaceAll(Lit("\""), val, "\"\"") \o "\""

csvRow(item) == Join([k \in 1..Len(csvFields) |-> quoted(csvValue(item, csvFields[k]))], ",")

\* exportCsv(items): the text of the file offered for download
exportCsv(items) ==
    Join(csvFields, ",") \o "\n" \o Join([k \in 1..Len(items) |-> csvRow(items[k])], "\n")

-----------------------------------------------------------------------------
(* src/unnamed/part_000: the page.  processFile and ocrPdf                 *)
(*   procs          the invocations of processFile: where each one waits   *)
(*                  (pc names the call it awaits), its file, page counter  *)
(*                  and texts, and trace, the calls it has made            *)
(*   storage        localStorage's item under STORAGE_KEY                  *)
(*   currentResult  the variable of that name, NoResult for null           *)
(*   ui             what the page shows                                    *)
(*   workers        the invocations whose Tesseract worker is alive        *)
(*   finished       the invocations in the order they reached the parse    *)
(*   saved          the records handed to saveToHistory since the history  *)
(*                  was last cleared, oldest first                         *)
(*   now            the clock                                              *)
(*   download       the text of the last file offered for download         *)

\* the invocations of processFile a behaviour has at most
MaxRuns == 2
Procs == 1..MaxRuns

\* a PDF with a text layer of 53 characters that are not whitespace, and a scanned one of
\* two pages; items are the strings of getTextContent, ocr is what
\* worker.recognize reads from the rendered page
TypedFile ==
    [ name |-> "typed.pdf",
      pages |-> << [ items |-> <<"IECEx ABC 12.0001X", " Ex db IIC T4 Gb">>,
                     ocr |-> "" ],
                   [ items |-> <<" Manufacturer: Acme Corp", " Zone 1">>,
                     ocr |-> "" ] >> ]
ScannedFile ==
    [ name |-> "scan.pdf",
      pages |-> << [items |-> <<>>, ocr |-> "Ex d IIC"],
                   [items |-> <<" ">>, ocr |-> "T4 Gb"] >> ]
Files == {TypedFile, ScannedFile}

numPages(file) == Len(file.pages)

\* content.items.map(item => item.str).join(' ')
pageText(file, i) == Join(file.pages[i].items, " ")

\* new Date().toISOString(), the clock counted in seconds
toISOString(t) == "2025-01-01T00:00:0" \o ToString(t) \o ".000Z"

Idle == [pc |-> "idle", file |-> <<>>, i |-> 0, fullText |-> "", ocrText |-> "",
         trace |-> <<>>]

\* the page after loading: nothing scanned, the drop zone shown
FreshUi ==
    [ dropZone |-> "", results |-> "none", processing |-> "none",
      panel |-> "spinner", message |-> "", card |-> NoResult, bar |-> -1,
      rawText |-> "", listed |-> <<>> ]

\* the page after loading, with what localStorage holds from earlier visits
\* the item that the calls saveToHistory(log[1]), saveToHistory(log[2]), ...
\* leave in an empty localStorage
RECURSIVE storedAfter(_)
storedAfter(log) ==
    IF log = <<>> THEN NoItem
    ELSE saveToHistory(storedAfter(SubSeq(log, 1, Len(log) - 1)), log[Len(log)])

\* the page after loading, log the records saved since the history was
\* last cleared
PageLoaded(log) ==
    /\ procs = [p \in Procs |-> Idle]
    /\ storage = storedAfter(log)
    /\ saved = log
    /\ currentResult = NoResult
    /\ ui = FreshUi
    /\ workers = {}
    /\ finished = <<>>
    /\ now = 0
    /\ download = ""

\* proc after one more call
Called(proc, what, arg) == [proc EXCEPT !.trace = Append(proc.trace, <<what, arg>>)]

\* the drop and change handlers: processFile(file) up to its first await
ProcessFile(p, file) ==
    /\ ui.dropZone = ""
    /\ procs[p].pc = "idle"
    /\ \A q \in Procs : q < p => procs[q].pc # "idle"
    /\ ui' = [ui EXCEPT !.dropZone = "none", !.results = "none", !.processing = ""]
    /\ procs' = [procs EXCEPT ![p] = [Idle EXCEPT !.pc = "arrayBuffer", !.file = file]]
    /\ UNCHANGED <<storage, currentResult, workers, finished, saved, now, download>>

\* file.arrayBuffer() resolved: getDocument is called
ArrayBufferDone(p) ==
    /\ procs[p].pc = "arrayBuffer"
    /\ procs' = [procs EXCEPT ![p].pc = "getDocument"]
    /\ UNCHANGED <<storage, currentResult, ui, workers, finished, saved, now, download>>

\* currentResult = { ...parsed, fileName, scannedAt, confidence, usedOcr }
scanResult(parsed, conf, fileName, at, usedOcr) ==
    Spread(parsed, [ fileName |-> fileName, scannedAt |-> toISOString(at),
                     confidence |-> conf, usedOcr |-> usedOcr ])

\* renderResults(data, conf): what the page shows afterwards
renderResults(data, conf) ==
    [ui EXCEPT !.processing = "none", !.results = "", !.card = data, !.bar = conf]

\* "Save to history" and "Render", the end of processFile's try block
Finish(p, proc, fullText, scan) ==
    /\ currentResult' = scan
    /\ storage' = saveToHistory(storage, scan)
    /\ ui' = [renderResults(scan, scan.confidence) EXCEPT !.rawText = fullText]
    /\ procs' = [procs EXCEPT ![p] =
                    [Called(Called(Called(Called(proc, "parse", fullText),
                                                 "confidence", fullText),
                                          "saveToHistory", fullText),
                                   "renderResults", fullText)
                     EXCEPT !.pc = "done", !.fullText = fullText]]
    /\ finished' = Append(finished, p)
    /\ saved' = Append(saved, scan)
    /\ now' = now + 1
    /\ UNCHANGED <<workers, download>>

\* "Parse": ExParser.parse and ExParser.confidence, then the rest
Scan(p, proc, fullText, parsed, usedOcr) ==
    Finish(p, proc, fullText,
           scanResult(parsed, confidence(parsed), proc.file.name, now, usedOcr))

Scanned(p, proc, fullText, usedOcr) == Scan(p, proc, fullText, parse(fullText), usedOcr)

\* ocrPdf(pdf) up to its first await: Tesseract.createWorker is called
OcrPdf(p, proc) ==
    /\ procs' = [procs EXCEPT ![p] = [Called(proc, "ocrPdf", "") EXCEPT !.pc = "createWorker"]]
    /\ UNCHANGED <<storage, currentResult, workers, finished, saved, now, download>>

\* "Step 2": after the last page, OCR for a text of less than 50 characters
\* that are not whitespace, the parse otherwise
AfterPages(p, proc) ==
    IF Len(Trim(ReplaceAll(Plus(WS), proc.fullText, ""))) < 50
    THEN /\ ui' = [ui EXCEPT !.message = "Scanned PDF detected"]
         /\ OcrPdf(p, proc)
    ELSE Scanned(p, proc, proc.fullText, FALSE)

\* getDocument(...).promise resolved: the loop over the pages starts
GetDocumentDone(p) ==
    /\ procs[p].pc = "getDocument"
    /\ IF 1 <= numPages(procs[p].file)
       THEN /\ procs' = [procs EXCEPT ![p].pc = "getPage", ![p].i = 1]
            /\ UNCHANGED <<storage, currentResult, ui, workers, finished, saved, now, download>>
       ELSE AfterPages(p, procs[p])

\* pdf.getPage(i) resolved: page.getTextContent is called
GetPageDone(p) ==
    /\ procs[p].pc = "getPage"
    /\ procs' = [procs EXCEPT ![p].pc = "getTextContent"]
    /\ UNCHANGED <<storage, currentResult, ui, workers, finished, saved, now, download>>

\* fullText += pageText + '\n\n', and i++
Appended(proc) ==
    [Called(proc, "append", pageText(proc.file, proc.i) \o "\n\n")
     EXCEPT !.fullText = proc.fullText \o pageText(proc.file, proc.i) \o "\n\n",
            !.i = proc.i + 1]

\* a loop that ends after its first page
pageLoopOnce(p, proc) == AfterPages(p, proc)

\* the loop over the pages after page i: the next page, or the end
PageLoop(p, proc) ==
    IF proc.i <= numPages(proc.file)
    THEN /\ procs' = [procs EXCEPT ![p] = [proc EXCEPT !.pc = "getPage"]]
         /\ UNCHANGED <<storage, currentResult, ui, workers, finished, saved, now, download>>
    ELSE AfterPages(p, proc)

\* page.getTextContent() resolved: the text of the page is appended
GetTextContentDone(p) ==
    /\ procs[p].pc = "getTextContent"
    /\ PageLoop(p, Appended(procs[p]))

\* processing.querySelector('p').textContent = `Running OCR ... page i of n...`
ocrMessage(proc) ==
    "Running OCR, page " \o ToString(proc.i) \o " of " \o ToString(numPages(proc.file))

\* the loop of ocrPdf at page i: the next page, or worker.terminate()
NextOcrPage(p, proc) ==
    /\ IF proc.i <= numPages(proc.file)
       THEN /\ ui' = [ui EXCEPT !.message = ocrMessage(proc)]
            /\ procs' = [procs EXCEPT ![p] = [proc EXCEPT !.pc = "ocrGetPage"]]
       ELSE /\ ui' = ui
            /\ procs' = [procs EXCEPT ![p] = [proc EXCEPT !.pc = "terminate"]]
    /\ UNCHANGED <<storage, currentResult, finished, saved, now, download>>

\* Tesseract.createWorker('eng') resolved: the worker lives, the loop starts
CreateWorkerDone(p) ==
    /\ procs[p].pc = "createWorker"
    /\ workers' = workers \cup {p}
    /\ NextOcrPage(p, [procs[p] EXCEPT !.i = 1, !.ocrText = ""])

\* pdf.getPage(i) resolved in ocrPdf: the page is rendered on a canvas
OcrGetPageDone(p) ==
    /\ procs[p].pc = "ocrGetPage"
    /\ procs' = [procs EXCEPT ![p].pc = "render"]
    /\ UNCHANGED <<storage, currentResult, ui, workers, finished, saved, now, download>>

\* page.render(...).promise resolved: worker.recognize(canvas) is called
RenderDone(p) ==
    /\ procs[p].pc = "render"
    /\ procs' = [procs EXCEPT ![p].pc = "recognize"]
    /\ UNCHANGED <<storage, currentResult, ui, workers, finished, saved, now, download>>

\* fullText += data.text + '\n\n' in ocrPdf, and i++
Recognized(proc) ==
    [Called(proc, "recognize", proc.file.pages[proc.i].ocr \o "\n\n")
     EXCEPT !.ocrText = proc.ocrText \o proc.file.pages[proc.i].ocr \o "\n\n",
            !.i = proc.i + 1]

\* worker.recognize(canvas) resolved: the text read is appended
RecognizeDone(p) ==
    /\ procs[p].pc = "recognize"
    /\ UNCHANGED workers
    /\ NextOcrPage(p, Recognized(procs[p]))

\* worker.terminate() resolved: ocrPdf returns its text
TerminateDone(p) ==
    /\ procs[p].pc = "terminate"
    /\ workers' = workers \ {p}
    /\ procs' = [procs EXCEPT ![p] = [Called(procs[p], "terminate", "") EXCEPT !.pc = "ocrPdf"]]
    /\ UNCHANGED <<storage, currentResult, ui, finished, saved, now, download>>

\* fullText = await ocrPdf(pdf) resolved: usedOcr = true, then the parse
OcrPdfDone(p) ==
    /\ procs[p].pc = "ocrPdf"
    /\ Scanned(p, procs[p], procs[p].ocrText, TRUE)

\* the calls processFile and ocrPdf await
Awaited ==
    { "arrayBuffer", "getDocument", "getPage", "getTextContent", "createWorker",
      "ocrGetPage", "render", "recognize", "terminate" }

\* the awaited call rejected: ocrPdf, if it is running, is left at that
\* point, and the catch block of processFile shows the error
Rejected(p) ==
    /\ procs[p].pc \in Awaited
    /\ procs' = [procs EXCEPT ![p] = [Called(procs[p], "catch", procs[p].pc)
                                      EXCEPT !.pc = "failed"]]
    /\ ui' = [ui EXCEPT !.panel = "error", !.message = procs[p].pc \o " failed"]
    /\ IF procs[p].pc = "terminate"
       THEN workers' \in {workers, workers \ {p}}
       ELSE workers' = workers
    /\ UNCHANGED <<storage, currentResult, finished, saved, now, download>>

\* the "Try Again" button of the error panel: location.reload()
TryAgain ==
    /\ ui.processing = ""
    /\ ui.panel = "error"
    /\ procs' = [p \in Procs |->
                    IF procs[p].pc \in Awaited \cup {"ocrPdf"}
                    THEN [procs[p] EXCEPT !.pc = "unloaded"] ELSE procs[p]]
    /\ currentResult' = NoResult
    /\ ui' = FreshUi
    /\ workers' = {}
    /\ UNCHANGED <<storage, finished, saved, now, download>>

\* showSection('history'): renderHistory lists what getHistory returns
ShowHistory ==
    /\ ui.listed # getHistory(storage)
    /\ ui' = [ui EXCEPT !.listed = getHistory(storage)]
    /\ UNCHANGED <<procs, storage, currentResult, workers, finished, saved, now, download>>

\* the click handler of a listed item
ViewHistoryItem(k) ==
    /\ k \in 1..Len(ui.listed)
    /\ currentResult' = ui.listed[k]
    /\ ui' = [renderResults(ui.listed[k], ui.listed[k].confidence)
              EXCEPT !.dropZone = "none",
                     !.rawText = "(Raw text not stored in history)"]
    /\ UNCHANGED <<procs, storage, workers, finished, saved, now, download>>

\* the scanAnother click handler
ScanAnother ==
    /\ ui.results = ""
    /\ ui' = [ui EXCEPT !.results = "none", !.dropZone = ""]
    /\ currentResult' = NoResult
    /\ UNCHANGED <<procs, storage, workers, finished, saved, now, download>>

\* the clearHistory click handler, confirmed
ClearHistory ==
    /\ storage' = NoItem
    /\ saved' = <<>>
    /\ ui' = [ui EXCEPT !.listed = <<>>]
    /\ UNCHANGED <<procs, currentResult, workers, finished, now, download>>

\* the exportCsv click handler
ExportCsv ==
    /\ currentResult # NoResult
    /\ download' = exportCsv(<<currentResult>>)
    /\ UNCHANGED <<procs, storage, currentResult, ui, workers, finished, saved, now>>

\* the exportAllCsv click handler
ExportAllCsv ==
    /\ getHistory(storage) # <<>>
    /\ download' = exportCsv(getHistory(storage))
    /\ UNCHANGED <<procs, storage, currentResult, ui, workers, finished, saved, now>>

\* currentResult = rec; saveToHistory(currentResult), for a given scan result
SaveToHistory(rec) ==
    /\ currentResult' = rec
    /\ storage' = saveToHistory(storage, rec)
    /\ saved' = Append(saved, rec)
    /\ now' = now + 1
    /\ UNCHANGED <<procs, ui, workers, finished, download>>

-----------------------------------------------------------------------------
(* The state machine: a text is handed to one of the two parsers, and the  *)
(* record it returns is handed to confidence.                              *)
(*   text    the input of parse                                            *)
(*   impl    "none" before parse has run, then the file whose parse ran    *)
(*           ("part_000", "parser.js"), or "given" for a record that was   *)
(*           handed to confidence directly                                 *)
(*   result  the record parse returned                                     *)
(*   score   what confidence returned for result, -1 before it has run     *)
(*   certBodies  the array CERT_BODIES as the script holds it              *)
(*   calls   the calls made so far: the text, the record parse returned    *)
(*           and the value confidence returned for it                      *)

\* a text is at most MaxParts fragments of a pool, joined by single spaces
MaxParts == 2

RECURSIVE Concats(_, _)
Concats(pool, n) ==
    IF n = 0 THEN {""}
    ELSE LET shorter == Concats(pool, n - 1)
         IN  shorter \cup {IF s = "" THEN f ELSE s \o " " \o f : s \in shorter, f \in pool}

TextsOf(pool) == Concats(pool, MaxParts)

\* fragments about markings and the fields read from them
MarkPool ==
    { "Ex d IIC", "Ex db IIC T4 Gb", "Ex  db\nIIC T4 Gb", "Ex db ia IIC T4 Gb",
      "IIB T3 Da", "Ex e foo", "Ex d IIB+H2 T4 Gb", "Ex tb IIIC T135°C Db" }

\* fragments about zones and protection levels
ZonePool ==
    { "Zone 1", "zone  21", "Zone x", "Gb", "Da", "Mc", "Ex d IIC T4 Gc", "hello" }

\* fragments about the label-anchored fields and the notified bodies
FieldPool ==
    { "Special conditions:           ", "Manufacturer: ,,,", "Manufacturer: Acme Corp",
      "SGS-CSTC", "CSA Group", "PTB", "INERIS", "Equipment Group II", "T4", "hello" }

\* the script has run: the tables are as written, nothing was called
ScriptLoaded ==
    /\ certBodies = CERT_BODIES
    /\ calls = <<>>

InitText(pool) ==
    /\ text \in TextsOf(pool)
    /\ impl = "none"
    /\ result = NoResult
    /\ score = -1
    /\ ScriptLoaded
    /\ PageLoaded(<<>>)

\* ExParser.parse(text) of src/unnamed/part_000
Parse ==
    /\ impl = "none"
    /\ result' = parse(text)
    /\ impl' = "part_000"
    /\ UNCHANGED <<text, score, certBodies, calls>>
    /\ UNCHANGED pageVars

\* ExParser.parse(text) of src/js/parser.js
ParseJs ==
    /\ impl = "none"
    /\ result' = parseJs(text)
    /\ impl' = "parser.js"
    /\ UNCHANGED <<text, score, certBodies, calls>>
    /\ UNCHANGED pageVars

\* ExParser.confidence(result)
Confidence ==
    /\ impl # "none"
    /\ score = -1
    /\ score' = confidence(result)
    /\ UNCHANGED <<text, impl, result, certBodies, calls>>
    /\ UNCHANGED pageVars

Next == Parse \/ ParseJs \/ Confidence

SpecMark == InitText(MarkPool) /\ [][Next]_vars
SpecZone == InitText(ZonePool) /\ [][Next]_vars
SpecFields == InitText(FieldPool) /\ [][Next]_vars

\* a one-line certificate: its number, its marking, its manufacturer and
\* its zone
Scenario == "IECEx ABC 12.0001X  Ex db IIC T4 Gb  Manufacturer: Acme Corp  Zone 1"

\* fragments about certificate numbers of the three schemes
CertPool ==
    { "IECEx ABC 12.0001X", "IECEx  ABC\n12.0001X/1.0", "TRAC13ATEX0009X",
      "FIDI 24 ATEX\t0075X/1", "13 ATEX 0009", "UKCA AB-12", "UKCA \n\tCA.12/3",
      "hello", Scenario }

SpecCert == InitText(CertPool) /\ [][Next]_vars

\* fragments with and without a certificate number, a gas group (known to
\* GAS_GROUP_INFO or not) and a temperature class
RecordPool ==
    { "IECEx ABC 12.0001X", "TRAC13ATEX0009X", "13 ATEX 0009", "UKCA AB-12",
      "Ex d IIB+H2 T4 Gb", "Ex db IIC T4 Gb", "Group II", "IIIC", "T6", "hello" }

SpecRecord == InitText(RecordPool) /\ [][Next]_vars

Parsed == impl \in {"part_000", "parser.js"}

-----------------------------------------------------------------------------
(* Records handed to confidence directly: every combination of present and *)
(* absent fields of one fully extracted certificate                        *)

FullRecord ==
    [ certNumber |-> "IECEx ABC 12.0001X",
      certType |-> "IECEx",
      marking |-> "Ex db IIC T4 Gb",
      markings |-> <<"Ex db IIC T4 Gb">>,
      protectionTypes |-> <<[code |-> "db", baseType |-> "d", level |-> "b",
                             description |-> "Flameproof enclosure"]>>,
      gasGroup |-> "IIC",
      gasGroupInfo |-> "Hydrogen, acetylene (most stringent)",
      tempClass |-> "T4",
      tempClassMax |-> "135°C",
      epl |-> "Gb",
      zone |-> "Zone 1",
      ipRating |-> "IP66",
      ambientTemp |-> "-20°C to +40°C",
      manufacturer |-> "Acme Corp",
      equipment |-> "Junction box",
      notifiedBody |-> "DEKRA",
      issueDate |-> "2020-01-31",
      expiryDate |-> "2030-01-31",
      specialConditions |-> "See the instructions for safe use.",
      standard |-> "IEC 60079-0:2017",
      category |-> "2",
      group |-> "II",
      raw |-> "" ]

AllFields == DOMAIN FullRecord
ScalarFields == AllFields \ (ArrayFields \cup {"raw"})
WeightedFields == {weights[k][1] : k \in 1..Len(weights)}

\* the field a field is extracted together with
ExtractedWith(f) ==
    CASE f = "certType" -> "certNumber"
      [] f = "markings" -> "marking"
      [] f = "gasGroupInfo" -> "gasGroup"
      [] f = "tempClassMax" -> "tempClass"
      [] OTHER -> f

Absent(f) == IF f \in ArrayFields THEN <<>> ELSE null

\* FullRecord with only the fields of present extracted
RecordWith(present) ==
    [f \in AllFields |->
        IF f = "raw" \/ ExtractedWith(f) \in present THEN FullRecord[f] ELSE Absent(f)]

\* the fields whose presence is varied: the weighted ones and two others
VariedFields == WeightedFields \cup {"zone", "standard"}

InitGiven ==
    /\ text = ""
    /\ impl = "given"
    /\ result \in {RecordWith(present) : present \in SUBSET VariedFields}
    /\ score = -1
    /\ ScriptLoaded
    /\ PageLoaded(<<>>)

SpecConf == (InitGiven \/ InitText(FieldPool)) /\ [][Next]_vars

-----------------------------------------------------------------------------
(* The page: files are dropped, looked at in the history and scanned again *)

\* a scan of an earlier visit
EarlierScan == scanResult(RecordWith({"certNumber", "marking"}), 40, "earlier.pdf", 0, FALSE)

NoCall ==
    /\ text = ""
    /\ impl = "none"
    /\ result = NoResult
    /\ score = -1
    /\ ScriptLoaded

InitPage == NoCall /\ (PageLoaded(<<>>) \/ PageLoaded(<<EarlierScan>>))

PageNext ==
    \/ \E p \in Procs, file \in Files : ProcessFile(p, file) /\ UNCHANGED parserVars
    \/ \E p \in Procs : ArrayBufferDone(p) /\ UNCHANGED parserVars
    \/ \E p \in Procs : GetDocumentDone(p) /\ UNCHANGED parserVars
    \/ \E p \in Procs : GetPageDone(p) /\ UNCHANGED parserVars
    \/ \E p \in Procs : GetTextContentDone(p) /\ UNCHANGED parserVars
    \/ \E p \in Procs : CreateWorkerDone(p) /\ UNCHANGED parserVars
    \/ \E p \in Procs : OcrGetPageDone(p) /\ UNCHANGED parserVars
    \/ \E p \in Procs : RenderDone(p) /\ UNCHANGED parserVars
    \/ \E p \in Procs : RecognizeDone(p) /\ UNCHANGED parserVars
    \/ \E p \in Procs : TerminateDone(p) /\ UNCHANGED parserVars
    \/ \E p \in Procs : OcrPdfDone(p) /\ UNCHANGED parserVars
    \/ \E p \in Procs : Rejected(p) /\ UNCHANGED parserVars
    \/ TryAgain /\ UNCHANGED parserVars
    \/ ShowHistory /\ UNCHANGED parserVars
    \/ \E k \in 1..HistoryCap : ViewHistoryItem(k) /\ UNCHANGED parserVars
    \/ ScanAnother /\ UNCHANGED parserVars
    \/ ClearHistory /\ UNCHANGED parserVars

SpecPage == InitPage /\ [][PageNext]_vars

-----------------------------------------------------------------------------
(* The history: scan results are saved, one after the other, and the       *)
(* history is cleared                                                      *)

MaxEarlier == 51
MaxSaves == 3

\* the results the scan at time t can have: one for each of the first
\* MaxEarlier scans, any of four for the later ones
ScansAt(t) ==
    IF t < MaxEarlier
    THEN { scanResult([RecordWith({"certNumber"}) EXCEPT !.raw = "IECEx ABC 12.0001X"],
                      20, "earlier" \o ToString(t) \o ".pdf", t, FALSE) }
    ELSE { scanResult([RecordWith(present) EXCEPT !.raw = "Ex db IIC T4 Gb"],
                      confidence(RecordWith(present)), "later.pdf", t, usedOcr) :
             present \in {{}, {"certNumber", "marking", "manufacturer"}},
             usedOcr \in BOOLEAN }

InitHistory == NoCall /\ PageLoaded(<<>>)

HistoryNext ==
    \/ \E rec \in ScansAt(now) :
           now < MaxEarlier + MaxSaves /\ SaveToHistory(rec) /\ UNCHANGED parserVars
    \/ ClearHistory /\ UNCHANGED parserVars

SpecHistory == InitHistory /\ [][HistoryNext]_vars

-----------------------------------------------------------------------------
(* The export: the results of earlier scans are listed, looked at and      *)
(* exported, one by one and all at once                                    *)

\* the scans a history can hold
MaxStored == 2

\* texts whose values hold double quotes, commas and nothing at all
CsvTexts ==
    { "hello",
      "IECEx ABC 12.0001X\nManufacturer: Acme \"Ex\" Corp, Ltd\nPTB",
      "Ex db IIC T4 Gb\nEquipment: \"\",\"\"" }

scanOf(parsed, fileName) == scanResult(parsed, confidence(parsed), fileName, 0, FALSE)

CsvScans == { scanOf(parse(t), name) : t \in CsvTexts, name \in {"scan.pdf", "a,\"b\".pdf"} }

RECURSIVE LogsOf(_, _)
LogsOf(scans, n) ==
    IF n = 0 THEN {<<>>}
    ELSE LET shorter == LogsOf(scans, n - 1)
         IN  shorter \cup {Append(log, scan) : log \in shorter, scan \in scans}

InitCsv == NoCall /\ \E log \in LogsOf(CsvScans, MaxStored) : PageLoaded(log)

CsvNext ==
    \/ ShowHistory /\ UNCHANGED parserVars
    \/ \E k \in 1..HistoryCap : ViewHistoryItem(k) /\ UNCHANGED parserVars
    \/ ExportCsv /\ UNCHANGED parserVars
    \/ ExportAllCsv /\ UNCHANGED parserVars

SpecCsv == InitCsv /\ [][CsvNext]_vars

-----------------------------------------------------------------------------
(* Repeated calls: parse and confidence are called on one text after the   *)
(* other, with the tables as the calls before left them                    *)

MaxCalls == 3

\* texts with and without a notified body, a number and a marking
CallPool ==
    { "", "hello", "PTB IECEx ABC 12.0001X", "Issued by SGS-CSTC\nEx db IIC T4 Gb",
      Scenario }

\* CERT_BODIES after [...CERT_BODIES].sort(...), had the array itself been sorted
tableSorted(table) == SortByLengthDesc(table)

\* CERT_BODIES after [...CERT_BODIES].sort(...): the copy is sorted
tableAfterParse(table) == table

\* parse(t) with CERT_BODIES as it stands
parseWith(table, t) ==
    [parse(t) EXCEPT !.notifiedBody = firstIncluded(SortByLengthDesc(table), 1, t)]

\* parse(t), then confidence of the record it returned
Call(t) ==
    /\ Len(calls) < MaxCalls
    /\ text' = t
    /\ impl' = "part_000"
    /\ result' = parseWith(certBodies, t)
    /\ score' = confidence(result')
    /\ certBodies' = tableAfterParse(certBodies)
    /\ calls' = Append(calls, [text |-> t, result |-> result', score |-> score'])
    /\ UNCHANGED pageVars

CallsNext == \E t \in CallPool : Call(t)

InitCalls == NoCall /\ PageLoaded(<<>>)

SpecCalls == InitCalls /\ [][CallsNext]_vars

-----------------------------------------------------------------------------
(* Properties *)

NoDuplicates(xs) == \A i, j \in 1..Len(xs) : i # j => xs[i] # xs[j]
LongestFirst(xs) == \A i, j \in 1..Len(xs) : i < j => Len(xs[i]) >= Len(xs[j])
Elements(xs) == {xs[k] : k \in 1..Len(xs)}
IndexOf(xs, x) == CHOOSE k \in 1..Len(xs) : xs[k] = x

\* a string with its leading and trailing whitespace removed and every other
\* run of whitespace made one space: its words, joined by single spaces
Normalized(s) == Join(SelectSeq(Split(Plus(WS), s), LAMBDA w : w # ""), " ")

\* what the five marking patterns match in a text, whitespace-normalized
Candidates(t) ==
    UNION { LET ms == MatchAll(markingPatterns[j], t)
            IN  {Normalized(ms[k]) : k \in 1..Len(ms)} : j \in 1..Len(markingPatterns) }

ShortMarking == "Ex d IIC"
LongMarking == "Ex db IIC T4 Gb"

\* C1: in the record of part_000's parse, markings holds exactly the distinct
\* whitespace-normalized candidates of the five marking patterns, without
\* duplicates and longest first; marking is markings[0], and absent exactly
\* when markings is empty; a text with "Ex d IIC" and "Ex db IIC T4 Gb" has
\* both in markings, the longer first, and the longer one is marking when no
\* other candidate is as long
C1_MarkingsLongestFirst ==
    impl = "part_000" =>
        LET ms == result.markings
        IN  /\ Elements(ms) = Candidates(text)
            /\ NoDuplicates(ms)
            /\ LongestFirst(ms)
            /\ result.marking = (IF ms = <<>> THEN null ELSE ms[1])
            /\ (Includes(text, ShortMarking) /\ Includes(text, LongMarking)) =>
                  /\ {ShortMarking, LongMarking} \subseteq Elements(ms)
                  /\ IndexOf(ms, LongMarking) < IndexOf(ms, ShortMarking)
                  /\ (\A c \in Candidates(text) \ {LongMarking} : Len(c) < Len(LongMarking))
                        => result.marking = LongMarking

\* C1 witness: a text with both markings, the longer one written twice with
\* different whitespace, parsed: four distinct candidates, the longer selected
C1_Witness ==
    /\ impl = "part_000"
    /\ text = "Ex d IIC Ex  db\nIIC T4 Gb"
    /\ result.marking = LongMarking
    /\ result.markings = <<LongMarking, "Ex db IIC T4", "Ex db IIC", ShortMarking>>

\* the words of a marking from the one after "Ex" up to the gas group
\* (I, II or III with its letters), and those of them that are valid codes
IsGasGroupWord(w) ==
    Test(Cat(<<Bol, Rep(Set({"I"}), 1, 3), Star(Set(ABC)), Opt(Lit("+H2")), Eol>>), w)

RECURSIVE CodesFrom(_, _)
CodesFrom(ws, k) ==
    IF k > Len(ws) \/ IsGasGroupWord(ws[k]) THEN <<>>
    ELSE (IF ToLowerCase(ws[k]) \in VALID_PROT_CODES THEN <<ws[k]>> ELSE <<>>)
         \o CodesFrom(ws, k + 1)

ExpectedCodes(marking) == CodesFrom(Split(Plus(WS), marking), 2)

\* C2: protectionTypes of part_000's parse has one entry, in order, for every
\* valid protection code of the selected marking between "Ex" and the gas
\* group; "Ex db ia IIC T4 Gb" gives the two entries db and ia
C2_ProtectionTypesComplete ==
    (impl = "part_000" /\ result.marking # null) =>
        /\ [k \in 1..Len(result.protectionTypes) |-> result.protectionTypes[k].code]
              = ExpectedCodes(result.marking)
        /\ result.marking = "Ex db ia IIC T4 Gb" =>
              result.protectionTypes =
                  << [code |-> "db", baseType |-> "d", level |-> "b",
                      description |-> "Flameproof enclosure"],
                     [code |-> "ia", baseType |-> "i", level |-> "a",
                      description |-> "Intrinsic safety"] >>

\* the zone table of the specification, written out
ZoneOfEpl(e) ==
    CASE e = "Ga" -> "0" [] e = "Gb" -> "1" [] e = "Gc" -> "2"
      [] e = "Da" -> "20" [] e = "Db" -> "21" [] e = "Dc" -> "22"
      [] e = "Ma" -> "M1" [] e = "Mb" -> "M2"

DerivedSuffix == " (derived from EPL)"
EndsWith(s, suffix) ==
    Len(s) >= Len(suffix) /\ SubSeq(s, Len(s) - Len(suffix) + 1, Len(s)) = suffix

\* C3: in both parsers, zone is "Zone <digits>" of the first explicit
\* "Zone <1-2 digits>" of the text, without the derived suffix, whatever epl is;
\* without one it is "Zone <mapped> (derived from EPL)" when epl is one of the
\* eight mapped levels, and absent otherwise
C3_ZoneGating ==
    Parsed =>
        LET explicit == Search(zonePat, text)
        IN  /\ explicit.found =>
                  /\ result.zone = "Zone " \o Group(text, explicit, 1)
                  /\ ~EndsWith(result.zone, DerivedSuffix)
            /\ (~explicit.found /\ result.epl \in {"Ga", "Gb", "Gc", "Da", "Db", "Dc", "Ma", "Mb"}) =>
                  result.zone = "Zone " \o ZoneOfEpl(result.epl) \o DerivedSuffix
            /\ (~explicit.found /\ result.epl \notin {"Ga", "Gb", "Gc", "Da", "Db", "Dc", "Ma", "Mb"}) =>
                  result.zone = null

\* C3 witness: an explicit zone next to a protection level that maps to
\* another zone
C3_Witness ==
    /\ impl = "part_000"
    /\ text = "Da Zone 1"
    /\ result.epl = "Da"
    /\ result.zone = "Zone 1"

\* C4: for every record handed to confidence, every combination of present
\* and absent weighted fields and every record the two parsers return, the
\* result is an integer from 0 to 100
C4_ConfidenceInRange ==
    score # -1 => score \in 0..100

\* C4 witness: the record with every weighted field present, scored
C4_Witness ==
    /\ impl = "given"
    /\ \A f \in WeightedFields : result[f] # Absent(f)
    /\ score = 100

\* the weight table of the specification, written out
WeightOf(f) ==
    CASE f \in {"certNumber", "marking"} -> 20
      [] f \in {"gasGroup", "tempClass", "protectionTypes"} -> 10
      [] f \in {"epl", "manufacturer", "equipment", "notifiedBody"} -> 5
      [] f \in {"ipRating", "ambientTemp"} -> 3
      [] f \in {"issueDate", "expiryDate"} -> 2

RECURSIVE SumOver(_)
SumOver(fields) ==
    IF fields = {} THEN 0
    ELSE LET f == CHOOSE x \in fields : TRUE
         IN  WeightOf(f) + SumOver(fields \ {f})

\* present as the specification defines it: a non-null scalar, a non-empty
\* protectionTypes
PresentFields(rec) ==
    {f \in WeightedFields :
        IF f \in ArrayFields THEN rec[f] # <<>> ELSE rec[f] # null}

\* C5: confidence(record) is the sum of the weights of the weighted fields
\* that are present (scalar: non-null; protectionTypes: non-empty), no other
\* field changes it, and one more present weighted field never lowers it
C5_ConfidenceIsWeightSum ==
    score # -1 =>
        /\ score = SumOver(PresentFields(result))
        /\ \A f \in WeightedFields \ PresentFields(result) :
              confidence([result EXCEPT ![f] = FullRecord[f]]) >= score

\* C6: every scalar field of the record either parser returns is absent or a
\* non-empty string
C6_ScalarsNeverEmpty ==
    Parsed => \A f \in ScalarFields : result[f] # ""

KnownBodies == IF impl = "parser.js" THEN Elements(CERT_BODIES_Js) ELSE Elements(CERT_BODIES)

\* C7: in both parsers notifiedBody is a known body name the text contains
\* such that the text contains no strictly longer known name (so CSA Group
\* wins over CSA, SGS-CSTC over SGS, DNV GL over DNV), and it is absent
\* exactly when the text contains no known name
C7_LongestBodyWins ==
    Parsed =>
        LET contained == {b \in KnownBodies : Includes(text, b)}
        IN  IF contained = {} THEN result.notifiedBody = null
            ELSE /\ result.notifiedBody \in contained
                 /\ \A b \in contained : Len(b) <= Len(result.notifiedBody)

\* the gas-group tokens as the claim writes them: II[ABC] and III[ABC]
plainGasPat ==
    Cat(<<WordB, Grp(1, Alt(<<Cat(<<Lit("III"), Set(ABC)>>), Cat(<<Lit("II"), Set(ABC)>>)>>)),
          WordB>>)

\* the first token of a kind in s, null without one
FirstToken(pat, s) ==
    LET m == Search(pat, s)
    IN  IF m.found THEN Group(s, m, 1) ELSE null

\* tempClass as the T token "T" + digit, null when absent
TempOf(digit) == IF digit = null THEN null ELSE "T" \o digit

\* gasGroup of a token of the text: the token without a leading "Group "
GasOf(token) == IF token = null THEN null ELSE ReplaceFirst(groupPrefixPat, token, "")

\* the fields decided by the marking where it has a token of the kind, and
\* by the whole text where it has none
ScopedToMarking(gasPat) ==
    LET mk == OrElse(result.marking, "")
        gas == FirstToken(gasPat, mk)
        temp == FirstToken(tempPat, mk)
        level == FirstToken(eplPat, mk)
    IN  /\ result.gasGroup = (IF gas # null THEN gas ELSE GasOf(FirstToken(gasTextPat, text)))
        /\ result.tempClass = TempOf(IF temp # null THEN temp ELSE FirstToken(tempPat, text))
        /\ result.epl = (IF level # null THEN level ELSE FirstToken(eplPat, text))

\* C8 as stated: in part_000's parse, gasGroup, tempClass and epl are the
\* first II[ABC] / III[ABC], T1..T6 and [GDM][abc] token of the selected
\* marking when it has one, even when another one stands earlier in the text,
\* and come from the whole text only otherwise
C8_MarkingTokensFirst_Stated ==
    impl = "part_000" => ScopedToMarking(plainGasPat)

\* C8, amended: the same, where the gas-group token of a marking is II[ABC]
\* together with a "+H2" that directly follows it, or III[ABC]
C8_MarkingTokensFirst ==
    impl = "part_000" => ScopedToMarking(gasMarkingPat)

\* C8 witness: other tokens of all three kinds stand before the marking
C8_Witness ==
    /\ impl = "part_000"
    /\ text = "IIB T3 Da Ex db IIC T4 Gb"
    /\ result.marking = "Ex db IIC T4 Gb"
    /\ result.gasGroup = "IIC" /\ result.tempClass = "T4" /\ result.epl = "Gb"

\* C9: in both parsers protectionTypes comes from the selected marking alone:
\* it is empty when marking is absent, and it is what the parser returns for
\* the marking by itself, whatever else the text holds
C9_ProtectionFromMarkingOnly ==
    Parsed =>
        IF result.marking = null THEN result.protectionTypes = <<>>
        ELSE result.protectionTypes =
                 (IF impl = "part_000" THEN parse(result.marking).protectionTypes
                  ELSE parseJs(result.marking).protectionTypes)

\* a text in which no rule of either parser matches: only these words
InertWords == {"", "hello"}
NoRuleMatches(t) == Elements(Split(Plus(WS), t)) \subseteq InertWords

\* C10: parse returns a complete record for every text, the empty one
\* included, with raw the text; on a text in which no rule matches every
\* scalar field is absent, the two lists are empty and confidence is 0; and
\* an extractor that finds nothing does not stop the later ones: the last
\* one (equipment group) and the temperature class still find their tokens
C10_ParseTotal ==
    Parsed =>
        /\ DOMAIN result = (IF impl = "part_000" THEN AllFields ELSE AllFields \ {"markings"})
        /\ result.raw = text
        /\ NoRuleMatches(text) =>
              /\ \A f \in ScalarFields : result[f] = null
              /\ \A f \in ArrayFields \cap DOMAIN result : result[f] = <<>>
              /\ score \in {-1, 0}
        /\ Test(grpPat, text) => result.group # null
        /\ Test(tempPat, text) => result.tempClass # null

\* C10 witness: a text without any token, parsed and scored 0
C10_Witness ==
    /\ Parsed
    /\ text = "hello hello"
    /\ score = 0

\* what processFile calls after the awaited work of a file
CoreCalls == {"parse", "confidence", "saveToHistory", "renderResults"}

CalledBy(proc) == {proc.trace[i][1] : i \in 1..Len(proc.trace)}

\* the step in which the catch block of processFile runs for invocation p
Fails(p) == procs[p].pc # "failed" /\ procs'[p].pc = "failed"

\* C11 (first part): when an awaited collaborator of processFile fails, the
\* catch block runs (the rejection does not leave processFile), and for that
\* file parse, confidence, saveToHistory and renderResults are not called,
\* the stored history is left as it was and no result card is drawn
C11_CoreUninvoked ==
    [][\A p \in Procs :
          Fails(p) =>
             /\ CalledBy(procs'[p]) \cap CoreCalls = {}
             /\ procs'[p].trace[Len(procs'[p].trace)][1] = "catch"
             /\ storage' = storage
             /\ currentResult' = currentResult
             /\ ui'.card = ui.card /\ ui'.results = ui.results
             /\ ui'.panel = "error"]_vars

\* C11: when an awaited collaborator of processFile fails, the core is left
\* uninvoked for that file, nothing is stored or rendered, and the page is in
\* the error state: the processing panel is on display and holds the
\* message with the "Try Again" button
C11_FailureSurfaced ==
    [][\A p \in Procs :
          Fails(p) =>
             /\ CalledBy(procs'[p]) \cap CoreCalls = {}
             /\ storage' = storage
             /\ ui'.card = ui.card /\ ui'.results = ui.results
             /\ ui'.panel = "error"
             /\ ui'.processing = ""]_vars

\* C12: whatever was saved and cleared, the stored history has at most 50
\* entries; its entry 0 is the record saved last and the entries follow in
\* the reverse of the order they were saved in; when more than 50 records
\* were saved since the history was last cleared, it holds the 50 saved
\* last; and each entry is the saved record without raw: the same fields with
\* the same values, raw left out
C12_HistoryKeepsLast50 ==
    LET history == getHistory(storage)
        n == Len(saved)
    IN  /\ Len(history) <= 50
        /\ Len(history) = (IF n > 50 THEN 50 ELSE n)
        /\ \A i \in 1..Len(history) :
              /\ DOMAIN history[i] = DOMAIN saved[n + 1 - i] \ {"raw"}
              /\ "raw" \in DOMAIN saved[n + 1 - i]
              /\ \A f \in DOMAIN history[i] : history[i][f] = saved[n + 1 - i][f]

\* C12 witness: 52 records were saved after the history was cleared, and the
\* two oldest ones are no longer stored
C12_Witness ==
    /\ Len(saved) = 52
    /\ saved[1].fileName = "earlier1.pdf"
    /\ Len(getHistory(storage)) = 50
    /\ getHistory(storage)[1].fileName = "later.pdf"
    /\ getHistory(storage)[50].fileName = "earlier3.pdf"

\* C13: parse of part_000 on the one-line scenario text returns the
\* certificate number, type, marking, gas group, temperature class, EPL and
\* zone of the text, the manufacturer "Acme Corp" without the "Zone 1" that
\* follows it on the line, and a record of confidence at least 70
C13_ScenarioRecord ==
    (impl = "part_000" /\ text = Scenario /\ score # -1) =>
        /\ result.certNumber = "IECEx ABC 12.0001X"
        /\ result.certType = "IECEx"
        /\ result.marking = "Ex db IIC T4 Gb"
        /\ result.gasGroup = "IIC"
        /\ result.tempClass = "T4"
        /\ result.epl = "Gb"
        /\ result.zone = "Zone 1"
        /\ result.manufacturer = "Acme Corp"
        /\ score >= 70

\* C13 (what the code returns): every field of the scenario but the
\* manufacturer is as stated; the manufacturer is the rest of the line
C13_ScenarioAsParsed ==
    (impl = "part_000" /\ text = Scenario /\ score # -1) =>
        /\ result.certNumber = "IECEx ABC 12.0001X"
        /\ result.certType = "IECEx"
        /\ result.marking = "Ex db IIC T4 Gb"
        /\ result.gasGroup = "IIC"
        /\ result.tempClass = "T4"
        /\ result.epl = "Gb"
        /\ result.zone = "Zone 1"
        /\ result.manufacturer = "Acme Corp  Zone 1"
        /\ score >= 70

\* the first match of a pattern in a text
FirstMatch(re, t) == Whole(t, Search(re, t))

\* C16: in parse of part_000 the scheme of the certificate number is decided
\* by which patterns match somewhere in the text, wherever that is: IECEx if
\* the IECEx pattern matches, else ATEX if the ATEX pattern matches, else
\* UKCA if the UKCA pattern matches, else none; certNumber is the first match
\* of the deciding pattern; certType is the dual value exactly when the IECEx
\* pattern decided and the text holds an ATEX-shaped substring, and then
\* certNumber is still the IECEx number
C16_CertPriority ==
    impl = "part_000" =>
        IF Test(iecexPat, text)
        THEN /\ result.certNumber = Normalized(FirstMatch(iecexPat, text))
             /\ result.certType =
                   (IF Test(atexAlsoPat, text) THEN "IECEx + ATEX" ELSE "IECEx")
        ELSE IF Test(atexPat, text)
        THEN /\ result.certNumber = ReplaceAll(WS, FirstMatch(atexPat, text), "")
             /\ result.certType = "ATEX"
        ELSE IF Test(ukcaPat, text)
        THEN /\ result.certNumber = FirstMatch(ukcaPat, text)
             /\ result.certType = "UKCA"
        ELSE result.certNumber = null /\ result.certType = null

\* C16 witness: an ATEX number stands before the IECEx number, and the
\* record has the IECEx number with the dual type
C16_Witness ==
    /\ impl = "part_000"
    /\ text = "TRAC13ATEX0009X IECEx ABC 12.0001X"
    /\ result.certNumber = "IECEx ABC 12.0001X"
    /\ result.certType = "IECEx + ATEX"

\* a newline, a tab, or two whitespace characters in a row
UnnormalizedSpace == Alt(<<Set({"\n", "\t"}), Cat(<<WS, WS>>)>>)

\* C17: the certNumber parse of part_000 stores, of whichever scheme, holds
\* no newline, no tab and no two whitespace characters in a row
C17_CertNumberNormalized ==
    (impl = "part_000" /\ result.certNumber # null) =>
        ~Test(UnnormalizedSpace, result.certNumber)

\* C14: any two parse calls on one text, whatever was parsed before and
\* between them, return records equal field by field; confidence returns the
\* same value for equal records, the value it returns for the record by
\* itself; and after every call CERT_BODIES is as the script wrote it
C14_Deterministic ==
    /\ certBodies = CERT_BODIES
    /\ \A i, j \in 1..Len(calls) :
          /\ calls[i].text = calls[j].text =>
                /\ DOMAIN calls[i].result = DOMAIN calls[j].result
                /\ \A f \in DOMAIN calls[i].result :
                      calls[i].result[f] = calls[j].result[f]
          /\ calls[i].result = calls[j].result => calls[i].score = calls[j].score
    /\ \A i \in 1..Len(calls) :
          /\ calls[i].result = parse(calls[i].text)
          /\ calls[i].score = confidence(calls[i].result)

\* C14 witness: a text with a notified body was parsed, then another text,
\* then the first text again
C14_Witness ==
    /\ Len(calls) = 3
    /\ calls[1].text = "PTB IECEx ABC 12.0001X"
    /\ calls[2].text = Scenario
    /\ calls[3].text = calls[1].text
    /\ calls[3].result.notifiedBody = "PTB"
    /\ calls[3].score = 25

\* the header line of the export
CsvHeader ==
    "certNumber,certType,marking,gasGroup,tempClass,epl,zone,ipRating,ambientTemp,"
    \o "manufacturer,equipment,notifiedBody,issueDate,expiryDate,category,group,"
    \o "standard,specialConditions,fileName,scannedAt"

CsvColumns == Split(Lit(","), CsvHeader)

\* the positions of s that hold the character c outside double quotes: an
\* even number of double quotes stands before them
Outside(s, c) ==
    { i \in 1..Len(s) :
        /\ CharAt(s, i) = c
        /\ Cardinality({j \in 1..(i - 1) : CharAt(s, j) = "\""}) % 2 = 0 }

\* the pieces of s between the positions seps, from position from on
RECURSIVE PiecesFrom(_, _, _)
PiecesFrom(s, seps, from) ==
    LET later == {i \in seps : i >= from}
    IN  IF later = {} THEN <<SubSeq(s, from, Len(s))>>
        ELSE LET next == CHOOSE i \in later : \A j \in later : i <= j
             IN  <<SubSeq(s, from, next - 1)>> \o PiecesFrom(s, seps, next + 1)

\* what a reader of comma-separated values makes of s: its records, and the
\* cells of each, as written
CellsOf(s) ==
    LET records == PiecesFrom(s, Outside(s, "\n"), 1)
    IN  [r \in 1..Len(records) |-> PiecesFrom(records[r], Outside(records[r], ","), 1)]

\* a cell is a value between double quotes with each double quote doubled
IsQuoted(cell, val) ==
    /\ Len(cell) >= 2
    /\ CharAt(cell, 1) = "\"" /\ CharAt(cell, Len(cell)) = "\""
    /\ LET inner == SubSeq(cell, 2, Len(cell) - 1)
       IN  /\ ~Includes(ReplaceAll(Lit("\"\""), inner, ""), "\"")
           /\ ReplaceAll(Lit("\"\""), inner, "\"") = val

\* csv is the header line followed by one row for each of items, in order,
\* each of 20 quoted cells holding the item's values in column order, ""
\* for a null one
Exports(csv, items) ==
    /\ SubSeq(csv, 1, Len(CsvHeader) + 1) = CsvHeader \o "\n"
    /\ Len(CsvColumns) = 20
    /\ LET rows == CellsOf(SubSeq(csv, Len(CsvHeader) + 2, Len(csv)))
       IN  /\ Len(rows) = Len(items)
           /\ \A r \in 1..Len(rows) :
                 /\ Len(rows[r]) = 20
                 /\ \A c \in 1..20 :
                       IsQuoted(rows[r][c],
                                IF items[r][CsvColumns[c]] = null THEN ""
                                ELSE items[r][CsvColumns[c]])

CallsOf(trace, what) == {k \in 1..Len(trace) : trace[k][1] = what}

\* the texts of pages 1..n of a file, each followed by a double line-break:
\* as extracted, and as recognized
RECURSIVE Extracted(_, _)
Extracted(file, n) ==
    IF n = 0 THEN "" ELSE Extracted(file, n - 1) \o Join(file.pages[n].items, " ") \o "\n\n"

RECURSIVE Read(_, _)
Read(file, n) ==
    IF n = 0 THEN "" ELSE Read(file, n - 1) \o file.pages[n].ocr \o "\n\n"

\* C18: parse is called only in a run that has not failed, once, as the
\* run's last call but three, followed by confidence, saveToHistory and
\* renderResults in that order; before it the text of each page 1..numPages
\* was appended, and when ocrPdf was called each page was recognized and the
\* worker's termination awaited; the text parsed is that of all pages, each
\* followed by a double line-break: the recognized one if ocrPdf was called
C18_ParseOnceOnFullText ==
    \A p \in Procs :
        LET trace == procs[p].trace
            file == procs[p].file
            n == Len(trace)
        IN  IF procs[p].pc # "done" THEN CallsOf(trace, "parse") = {}
            ELSE /\ CallsOf(trace, "parse") = {n - 3}
                 /\ trace[n - 2][1] = "confidence"
                 /\ trace[n - 1][1] = "saveToHistory"
                 /\ trace[n][1] = "renderResults"
                 /\ Cardinality(CallsOf(trace, "append")) = numPages(file)
                 /\ \A k \in 1..numPages(file) :
                       trace[k] = <<"append", Join(file.pages[k].items, " ") \o "\n\n">>
                 /\ IF CallsOf(trace, "ocrPdf") = {}
                    THEN /\ n = numPages(file) + 4
                         /\ trace[n - 3][2] = Extracted(file, numPages(file))
                    ELSE /\ n = 2 * numPages(file) + 6
                         /\ trace[numPages(file) + 1][1] = "ocrPdf"
                         /\ \A k \in 1..numPages(file) :
                               trace[numPages(file) + 1 + k] =
                                   <<"recognize", file.pages[k].ocr \o "\n\n">>
                         /\ trace[n - 4][1] = "terminate"
                         /\ trace[n - 3][2] = Read(file, numPages(file))
                 /\ procs[p].fullText = trace[n - 3][2]

\* C18 witness: both files were processed to the end, the typed one in
\* one parse of the text of its two pages, the scanned one in one parse of
\* what was recognized on its two pages
C18_Witness ==
    /\ procs[1].pc = "done" /\ procs[1].file.name = "typed.pdf"
    /\ procs[1].fullText =
          "IECEx ABC 12.0001X  Ex db IIC T4 Gb\n\n Manufacturer: Acme Corp  Zone 1\n\n"
    /\ procs[2].pc = "done" /\ procs[2].file.name = "scan.pdf"
    /\ procs[2].fullText = "Ex d IIC\n\nT4 Gb\n\n"
    /\ Len(getHistory(storage)) >= 2

\* the invocation that reaches its parse in this step
Finishes(p) == procs[p].pc # "done" /\ procs'[p].pc = "done"

\* C19: however the invocations of processFile overlap, the step in which
\* one reaches its parse puts exactly one entry, its own result without raw,
\* in front of the stored history and leaves the entries that were there,
\* and currentResult is that result; no other step adds to the history; so
\* the history lists the results in the reverse of the order in which the
\* invocations reached the parse
C19_NoLostUpdate ==
    [][/\ \A p \in Procs :
             Finishes(p) =>
                /\ finished' = Append(finished, p)
                /\ currentResult'.fileName = procs[p].file.name
                /\ currentResult'.raw = procs'[p].fullText
                /\ getHistory(storage') =
                      <<[f \in DOMAIN currentResult' \ {"raw"} |-> currentResult'[f]]>>
                      \o getHistory(storage)
       /\ (\A p \in Procs : ~Finishes(p)) =>
             /\ finished' = finished
             /\ Len(getHistory(storage')) <= Len(getHistory(storage))
       /\ Len(getHistory(storage')) = Len(saved')
       /\ \A i \in 1..Len(saved') :
             getHistory(storage')[i].scannedAt = saved'[Len(saved') + 1 - i].scannedAt]_vars

\* C19 witness: the invocation started second reached its parse first, and
\* the history lists its result below that of the invocation started first
C19_Witness ==
    /\ finished = <<2, 1>>
    /\ procs[1].file.name = "scan.pdf" /\ procs[2].file.name = "typed.pdf"
    /\ Len(getHistory(storage)) = 3
    /\ getHistory(storage)[1].fileName = "scan.pdf"
    /\ getHistory(storage)[2].fileName = "typed.pdf"
    /\ getHistory(storage)[3].fileName = "earlier.pdf"

\* C20: once an invocation of processFile has ended, with a result or with
\* the error shown, the worker its ocrPdf created is not alive
C20_WorkerTerminated ==
    \A p \in Procs : procs[p].pc \in {"done", "failed"} => p \notin workers

\* C20 (the paths that do release): an invocation that ended with a result
\* has no worker alive, nor has one that failed before its worker was created
C20_WorkerTerminatedOnSuccess ==
    \A p \in Procs :
        (procs[p].pc = "done" \/
         (procs[p].pc = "failed" /\ CallsOf(procs[p].trace, "ocrPdf") = {}))
            => p \notin workers

\* C21: in every record parse returns, of either parser, certType is
\* present exactly when certNumber is, tempClassMax is present exactly when
\* tempClass is, and gasGroupInfo is present only when gasGroup is
C21_RecordConsistent ==
    Parsed =>
        /\ Truthy(result.certType) <=> Truthy(result.certNumber)
        /\ Truthy(result.tempClassMax) <=> Truthy(result.tempClass)
        /\ Truthy(result.gasGroupInfo) => Truthy(result.gasGroup)

\* C21 witness: a record of parser.js with a certificate number and its
\* type, a temperature class and its maximum, and a gas group that
\* GAS_GROUP_INFO does not know
C21_Witness ==
    /\ impl = "parser.js"
    /\ text = "UKCA AB-12 Ex d IIB+H2 T4 Gb"
    /\ result.certNumber = "UKCA AB-12" /\ result.certType = "UKCA"
    /\ result.tempClass = "T4" /\ result.tempClassMax = "135°C"
    /\ result.gasGroup = "IIB+H2" /\ result.gasGroupInfo = null

\* C21 witness of the other parser: no number and no type, no class and no
\* maximum, a gas group with its description
C21_WitnessAbsent ==
    /\ impl = "part_000"
    /\ text = "IIIC hello"
    /\ result.certNumber = null /\ result.certType = null
    /\ result.tempClass = null /\ result.tempClassMax = null
    /\ result.gasGroup = "IIIC" /\ result.gasGroupInfo = "Conductive dust (most stringent)"

====
